---- MODULE Spec2Model ----
(***************************************************************************)
(* A state-machine model of synagraph: the outbox (in-process and          *)
(* relational backends), the node repository and the capsule ingest flow.  *)
(***************************************************************************)
EXTENDS Integers, Sequences, FiniteSets, TLC

----------------------------------------------------------------------------
(* Bounds of the model. *)

MaxClock == 1
MaxEnqueue == 2
MaxBatch == 2
MaxUpserts == 2
MaxIngests == 2

----------------------------------------------------------------------------
(* Values. *)

\* Option<T>: None is the empty tuple, Some(x) the one-element tuple.
None == << >>
Some(x) == <<x>>

Tenants == {"t1", "t2"}
Claimers == {"c1", "c2"}
Callers == {"a", "b"}
Handlers == {"h1", "h2"}
NodeIds == {"n1", "n2"}
Keys == {"k1", "k2"}
Hashes == {"h1", "h2"}
Slugs == {"acme", "beta"}
Backends == {"memory", "postgres"}

\* enum OutboxKind, by its as_str() names.
OutboxKind == {"UPSERT", "SUPERSEDED_BY", "REVOKE_CAPSULE"}

\* The kind the bounded producers enqueue (no outbox operation branches on it).
EnqueuedKinds == {"UPSERT"}

Min(a, b) == IF a < b THEN a ELSE b

\* A HashMap (or a table by its key) is a function; insert adds or replaces one entry.
EmptyMap == << >>

Insert(map, k, v) == [i \in DOMAIN map \cup {k} |-> IF i = k THEN v ELSE map[i]]

Range(s) == {s[i] : i \in DOMAIN s}

\* A finite set of integers as the ascending sequence of its elements.
Sorted(S) ==
    [i \in 1..Cardinality(S) |-> CHOOSE s \in S : Cardinality({r \in S : r < s}) = i - 1]

\* All orderings of a finite set, as sequences without repetition.
Perms(S) == {s \in [1..Cardinality(S) -> S] : \A i, j \in DOMAIN s : i # j => s[i] # s[j]}

----------------------------------------------------------------------------
(* State. *)

VARIABLES
    backend,        \* which implementation the RepositoryBundle was built with
    now,            \* the wall clock (Utc::now() / SQL now())
    events,         \* InMemoryOutboxRepository.events: VecDeque<OutboxEvent>
    outbox_events,  \* relational table outbox_events: row i has id i
    outbox_seq,     \* the id sequence of outbox_events
    tx,             \* per claimer: the relational claim statement in flight
    enqueued,       \* history: number of enqueue calls so far
    enq_ids,        \* history: the ids the enqueue calls returned, in call order
    returned,       \* history: per event (by enqueue ordinal), how often a claim returned it
    last_batch,     \* the response of the claim_batch call that has just returned
    phase,          \* scenario of the exclusivity property: "fill", then "claim"
    batch_size,     \* scenario: the batch size every claimer uses
    participants,   \* scenario: the claimers that take part
    called,         \* scenario: the claimers that have made their call
    rls_enforced,   \* deployment: the database role is subject to the row-level policies
    scedge_event_bus_enabled,   \* AppConfig.scedge_event_bus_enabled
    inner,          \* InMemoryNodeRepository.inner: tenant -> (node id -> node)
    knowledge_nodes,\* relational table knowledge_nodes: id -> row (id is the key)
    pending,        \* per caller: the upsert call that has been made and not yet applied
    upserts,        \* history: the upsert calls applied, in the order they were applied
    last_get,       \* the response of the get call that has just returned
    ingest,         \* per handler: the capsule store request in flight
    latest,         \* history: per tenant and key, the hash of the last stored ingest
    ingests,        \* history: number of capsule store requests so far
    last_ingest,    \* the response (and published events) of the ingest just answered
    last_lookup,    \* the response of the capsule lookup just answered
    seen,           \* history: the last lookup hit since the store last changed
    purge,          \* the capsule purge request in flight
    last_purge,     \* the response (and published events) of the purge just answered
    pager,          \* the client that pages through query_by_kind, with its history
    last_search,    \* the response of the search_similar call that has just returned
    dashboard,      \* DashboardData: the metrics and the history of the admin UI
    last_api,       \* the response of the node store / node lookup request just served
    edges,          \* InMemoryEdgeRepository.edges: tenant -> Vec<(src, KnowledgeEdge)>
    knowledge_edges,\* relational table knowledge_edges, in insertion order
    last_neighbors  \* the response of the neighbors call that has just returned

outboxVars == <<events, outbox_events, outbox_seq, tx, enqueued, enq_ids, returned,
                last_batch>>
scenarioVars == <<phase, batch_size, participants, called>>
nodeVars == <<inner, knowledge_nodes, pending, upserts, last_get>>
httpVars == <<ingest, latest, ingests, last_ingest>>
lookupVars == <<last_lookup, seen>>
purgeVars == <<purge, last_purge>>
restVars == <<dashboard, last_api, edges, knowledge_edges, last_neighbors>>
otherVars == <<rls_enforced, scedge_event_bus_enabled, nodeVars, httpVars, lookupVars,
               purgeVars, pager, last_search, restVars>>
nonOutboxVars == <<scenarioVars, otherVars>>
vars == <<backend, now, outboxVars, scenarioVars, otherVars>>

\* struct OutboxEvent; seq is the history ordinal of the enqueue that made it.
OutboxEvent(seq, id, tenant, kind, created_at, published_at) ==
    [seq |-> seq, id |-> id, tenant_id |-> tenant, kind |-> kind,
     payload |-> "payload", created_at |-> created_at, published_at |-> published_at]

Idle == [state |-> "idle"]

NoBatch == [done |-> FALSE]

NoGet == [done |-> FALSE]

NoIngest == [done |-> FALSE]

NoLookup == [done |-> FALSE]

NoPurge == [done |-> FALSE]

NoSearch == [done |-> FALSE]

NoApi == [done |-> FALSE]

NoNeighbors == [done |-> FALSE]

\* DashboardData::default()
DashboardDefault ==
    [total_stores |-> 0, total_lookups |-> 0, cache_hits |-> 0, cache_misses |-> 0,
     total_purges |-> 0, last_updated |-> << >>, history |-> << >>]

Init ==
    /\ backend \in Backends
    /\ now = 0
    /\ events = << >>
    /\ outbox_events = << >>
    /\ outbox_seq = 0
    /\ tx = [c \in Claimers |-> Idle]
    /\ enqueued = 0
    /\ enq_ids = << >>
    /\ returned = << >>
    /\ last_batch = NoBatch
    /\ phase = "fill"
    /\ batch_size = 0
    /\ participants = {}
    /\ called = {}
    /\ rls_enforced \in (IF backend = "postgres" THEN BOOLEAN ELSE {FALSE})
    /\ scedge_event_bus_enabled \in BOOLEAN
    /\ inner = [t \in Tenants |-> EmptyMap]
    /\ knowledge_nodes = EmptyMap
    /\ pending = [c \in Callers |-> None]
    /\ upserts = << >>
    /\ last_get = NoGet
    /\ ingest = [h \in Handlers |-> Idle]
    /\ latest = [t \in Tenants |-> [k \in Keys |-> None]]
    /\ ingests = 0
    /\ last_ingest = NoIngest
    /\ last_lookup = NoLookup
    /\ seen = << >>
    /\ purge = Idle
    /\ last_purge = NoPurge
    /\ pager = Idle
    /\ last_search = NoSearch
    /\ dashboard = DashboardDefault
    /\ last_api = NoApi
    /\ edges = [t \in Tenants |-> << >>]
    /\ knowledge_edges = << >>
    /\ last_neighbors = NoNeighbors

\* Time passes, up to the bound of the scenario.
TickTo(max) ==
    /\ now < max
    /\ now' = now + 1
    /\ last_batch' = NoBatch
    /\ last_get' = NoGet
    /\ last_ingest' = NoIngest
    /\ last_lookup' = NoLookup
    /\ last_purge' = NoPurge
    /\ last_search' = NoSearch
    /\ last_api' = NoApi
    /\ last_neighbors' = NoNeighbors
    /\ UNCHANGED <<backend, events, outbox_events, outbox_seq, tx, enqueued, enq_ids,
                   returned, scenarioVars, rls_enforced, scedge_event_bus_enabled,
                   inner, knowledge_nodes, pending, upserts, ingest, latest, ingests,
                   seen, purge, pager, dashboard, edges, knowledge_edges>>

Tick == TickTo(MaxClock)

\* claim_batch(size) returns the events `out`; `pre` lists the unpublished events (by
\* enqueue ordinal, oldest first) when the call started.
RecordBatch(size, out, pre) ==
    /\ last_batch' = [done |-> TRUE, size |-> size, events |-> out, pre |-> pre]
    /\ returned' = [s \in DOMAIN returned |->
                       returned[s] + Cardinality({i \in DOMAIN out : out[i].seq = s})]

----------------------------------------------------------------------------
(* In-process outbox: one RwLock write guard around a VecDeque. *)

\* The identity enqueue gives the new event: guard.len() as i64 + 1.
MemNextId(queue) == Len(queue) + 1

MemEnqueue(tenant, kind) ==
    /\ backend = "memory"
    /\ enqueued < MaxEnqueue
    /\ LET id == MemNextId(events)
       IN /\ events' = Append(events,
                 OutboxEvent(enqueued + 1, id, tenant, kind, now, None))
          /\ enq_ids' = Append(enq_ids, id)
    /\ enqueued' = enqueued + 1
    /\ returned' = Append(returned, 0)
    /\ last_batch' = NoBatch
    /\ UNCHANGED <<backend, now, outbox_events, outbox_seq, tx>>

\* Mutant: one event fewer than asked for is popped.
MemClaimedButOne(queue, size) == SubSeq(queue, 1, Min(size - 1, Len(queue)))

\* The events claim_batch pops: the first min(size, len) of the queue.
MemClaimed(queue, size) == SubSeq(queue, 1, Min(size, Len(queue)))

\* Mutant: the events are read from the front of the queue but not popped.
MemClaimBatchPeek(c, size) ==
    /\ backend = "memory"
    /\ LET taken == MemClaimed(events, size)
           out == [i \in 1..Len(taken) |-> [taken[i] EXCEPT !.published_at = Some(now)]]
       IN RecordBatch(size, out, [i \in 1..Len(events) |-> events[i].seq])
    /\ UNCHANGED <<backend, now, events, outbox_events, outbox_seq, tx, enqueued, enq_ids>>

MemClaimBatch(c, size) ==
    /\ backend = "memory"
    /\ LET taken == MemClaimed(events, size)
           out == [i \in 1..Len(taken) |-> [taken[i] EXCEPT !.published_at = Some(now)]]
       IN /\ events' = SubSeq(events, Len(taken) + 1, Len(events))
          /\ RecordBatch(size, out, [i \in 1..Len(events) |-> events[i].seq])
    /\ UNCHANGED <<backend, now, outbox_events, outbox_seq, tx, enqueued, enq_ids>>

\* mark_published(_ids) is Ok(()) and touches nothing.
MemMarkPublished(ids) ==
    /\ backend = "memory"
    /\ last_batch' = NoBatch
    /\ UNCHANGED <<backend, now, events, outbox_events, outbox_seq, tx, enqueued,
                   enq_ids, returned>>

----------------------------------------------------------------------------
(* Relational outbox: table outbox_events, every call one autocommit statement. *)

\* The id column's sequence hands out the next value.
PgNextId(seq) == seq + 1

\* INSERT INTO outbox_events (tenant_id, kind, payload) ... RETURNING id;
\* created_at is the column default now(), published_at NULL.
PgEnqueue(tenant, kind) ==
    /\ backend = "postgres"
    /\ enqueued < MaxEnqueue
    /\ LET id == PgNextId(outbox_seq)
       IN /\ outbox_seq' = id
          /\ outbox_events' = Append(outbox_events,
                 OutboxEvent(enqueued + 1, id, tenant, kind, now, None))
          /\ enq_ids' = Append(enq_ids, id)
    /\ enqueued' = enqueued + 1
    /\ returned' = Append(returned, 0)
    /\ last_batch' = NoBatch
    /\ UNCHANGED <<backend, now, events, tx>>

Unpublished(table) == {i \in DOMAIN table : table[i].published_at = None}

InFlight(c) == tx[c].state # "idle"

\* The rows other claim statements hold a row lock on.
LockedByOthers(c) ==
    UNION {tx[d].rows : d \in {e \in Claimers \ {c} : tx[e].state = "locked"}}

\* The claim statement starts: its snapshot sees the committed unpublished rows.
PgClaimBegin(c) ==
    /\ backend = "postgres"
    /\ tx[c].state = "idle"
    /\ tx' = [tx EXCEPT ![c] = [state |-> "begun", start |-> now, size |-> 0,
                                snapshot |-> Unpublished(outbox_events), rows |-> {}]]
    /\ last_batch' = NoBatch
    /\ UNCHANGED <<backend, now, events, outbox_events, outbox_seq, enqueued, enq_ids,
                   returned>>

\* Mutant: a plain subquery, with neither the row locks nor the recheck.
PgLockableNoLock(c) == tx[c].snapshot

\* SELECT id ... WHERE published_at IS NULL ORDER BY created_at ASC LIMIT $1
\* FOR UPDATE SKIP LOCKED: of the snapshot's rows, those locked by another statement are
\* skipped and those whose latest version is no longer unpublished fail the recheck.
PgLockable(c) ==
    {i \in tx[c].snapshot : i \notin LockedByOthers(c) /\ outbox_events[i].published_at = None}

\* Of the lockable rows the first `size` by created_at are taken (ties in any order).
PgSelections(cand, size) ==
    {S \in SUBSET cand :
        /\ Cardinality(S) = Min(size, Cardinality(cand))
        /\ \A s \in S, r \in cand \ S :
              outbox_events[s].created_at <= outbox_events[r].created_at}

\* The subquery runs with LIMIT size (the call's argument, bound as $1).
PgClaimLock(c, size) ==
    /\ backend = "postgres"
    /\ tx[c].state = "begun"
    /\ \E S \in PgSelections(PgLockable(c), size) :
          tx' = [tx EXCEPT ![c].state = "locked", ![c].size = size, ![c].rows = S]
    /\ last_batch' = NoBatch
    /\ UNCHANGED <<backend, now, events, outbox_events, outbox_seq, enqueued, enq_ids,
                   returned>>

\* UPDATE ... SET published_at = now() WHERE id IN (locked rows) RETURNING ...:
\* now() is the statement's start time; RETURNING lists the rows in no promised order.
PgReturning(rows) == Perms(rows)

PgClaimCommit(c) ==
    /\ backend = "postgres"
    /\ tx[c].state = "locked"
    /\ outbox_events' = [i \in DOMAIN outbox_events |->
                           IF i \in tx[c].rows
                           THEN [outbox_events[i] EXCEPT !.published_at = Some(tx[c].start)]
                           ELSE outbox_events[i]]
    /\ \E order \in PgReturning(tx[c].rows) :
          RecordBatch(tx[c].size,
                      [k \in DOMAIN order |-> outbox_events'[order[k]]],
                      Sorted(tx[c].snapshot))
    /\ tx' = [tx EXCEPT ![c] = Idle]
    /\ UNCHANGED <<backend, now, events, outbox_seq, enqueued, enq_ids>>

\* The rows UPDATE ... SET published_at = now() WHERE id = ANY($1) rewrites.
PgMarked(table, ids) == {i \in DOMAIN table : table[i].id \in ids}

\* The UPDATE waits for row locks of claim statements in flight.
PgMarkPublished(ids) ==
    /\ backend = "postgres"
    /\ \A c \in Claimers : tx[c].state = "locked" => tx[c].rows \cap ids = {}
    /\ outbox_events' = [i \in DOMAIN outbox_events |->
                           IF i \in PgMarked(outbox_events, ids)
                           THEN [outbox_events[i] EXCEPT !.published_at = Some(now)]
                           ELSE outbox_events[i]]
    /\ last_batch' = NoBatch
    /\ UNCHANGED <<backend, now, events, outbox_seq, tx, enqueued, enq_ids, returned>>

----------------------------------------------------------------------------
(* The outbox under arbitrary interleavings of producers, claimers and markers. *)

NextOutbox ==
    \/ Tick
    \/ \E t \in Tenants, k \in EnqueuedKinds : MemEnqueue(t, k) /\ UNCHANGED nonOutboxVars
    \/ \E c \in Claimers, n \in 0..MaxBatch : MemClaimBatch(c, n) /\ UNCHANGED nonOutboxVars
    \/ \E ids \in SUBSET (1..MaxEnqueue) : MemMarkPublished(ids) /\ UNCHANGED nonOutboxVars
    \/ \E t \in Tenants, k \in EnqueuedKinds : PgEnqueue(t, k) /\ UNCHANGED nonOutboxVars
    \/ \E c \in Claimers : PgClaimBegin(c) /\ UNCHANGED nonOutboxVars
    \/ \E c \in Claimers, n \in 0..MaxBatch : PgClaimLock(c, n) /\ UNCHANGED nonOutboxVars
    \/ \E c \in Claimers : PgClaimCommit(c) /\ UNCHANGED nonOutboxVars
    \/ \E ids \in SUBSET (1..MaxEnqueue) : PgMarkPublished(ids) /\ UNCHANGED nonOutboxVars

Spec == Init /\ [][NextOutbox]_vars

----------------------------------------------------------------------------
(* The outbox with one operation at a time: no call starts while a claim runs. *)

NoClaimRunning == \A c \in Claimers : tx[c].state = "idle"

NextSequential ==
    \/ NoClaimRunning /\ Tick
    \/ \E t \in Tenants, k \in EnqueuedKinds : MemEnqueue(t, k) /\ UNCHANGED nonOutboxVars
    \/ \E c \in Claimers, n \in 0..MaxBatch : MemClaimBatch(c, n) /\ UNCHANGED nonOutboxVars
    \/ \E ids \in SUBSET (1..MaxEnqueue) : MemMarkPublished(ids) /\ UNCHANGED nonOutboxVars
    \/ \E t \in Tenants, k \in EnqueuedKinds :
          NoClaimRunning /\ PgEnqueue(t, k) /\ UNCHANGED nonOutboxVars
    \/ \E c \in Claimers : NoClaimRunning /\ PgClaimBegin(c) /\ UNCHANGED nonOutboxVars
    \/ \E c \in Claimers, n \in 0..MaxBatch : PgClaimLock(c, n) /\ UNCHANGED nonOutboxVars
    \/ \E c \in Claimers : PgClaimCommit(c) /\ UNCHANGED nonOutboxVars
    \/ \E ids \in SUBSET (1..MaxEnqueue) :
          NoClaimRunning /\ PgMarkPublished(ids) /\ UNCHANGED nonOutboxVars

SpecSequential == Init /\ [][NextSequential]_vars

----------------------------------------------------------------------------
(* The exclusivity scenario: M events are enqueued, then N claimers call           *)
(* claim_batch(batch_size) once each, concurrently.                                *)

StartClaimers(P, b) ==
    /\ phase = "fill"
    /\ phase' = "claim"
    /\ participants' = P
    /\ batch_size' = b
    /\ last_batch' = NoBatch
    /\ UNCHANGED <<backend, now, events, outbox_events, outbox_seq, tx, enqueued, enq_ids,
                   returned, called, otherVars>>

Calls(c) ==
    /\ phase = "claim"
    /\ c \in participants \ called
    /\ called' = called \cup {c}
    /\ UNCHANGED <<phase, batch_size, participants, otherVars>>

NextExclusive ==
    \/ Tick
    \/ \E t \in Tenants, k \in EnqueuedKinds :
          phase = "fill" /\ MemEnqueue(t, k) /\ UNCHANGED nonOutboxVars
    \/ \E t \in Tenants, k \in EnqueuedKinds :
          phase = "fill" /\ PgEnqueue(t, k) /\ UNCHANGED nonOutboxVars
    \/ \E P \in SUBSET Claimers \ {{}}, b \in 1..MaxBatch : StartClaimers(P, b)
    \/ \E c \in Claimers : Calls(c) /\ MemClaimBatch(c, batch_size)
    \/ \E c \in Claimers : Calls(c) /\ PgClaimBegin(c)
    \/ \E c \in Claimers : PgClaimLock(c, batch_size) /\ UNCHANGED nonOutboxVars
    \/ \E c \in Claimers : PgClaimCommit(c) /\ UNCHANGED nonOutboxVars

SpecExclusive == Init /\ [][NextExclusive]_vars

----------------------------------------------------------------------------
(* Properties of the outbox. *)

\* C1: whatever the interleaving of enqueue and claim_batch calls of any claimers, no
\* outbox event is returned by more than one claim_batch call (both backends).
C1_NoEventClaimedTwice == \A s \in DOMAIN returned : returned[s] <= 1

\* A relational claim returns events while another claimer's statement holds row locks.
C1_Witness ==
    /\ backend = "postgres"
    /\ last_batch.done
    /\ last_batch.events # << >>
    /\ \E c \in Claimers : tx[c].state = "locked" /\ tx[c].rows # {}

AllReturned ==
    /\ phase = "claim"
    /\ called = participants
    /\ \A c \in Claimers : tx[c].state = "idle"

\* C2: M events enqueued, N claimers each calling claim_batch(batch_size) once with
\* N * batch_size >= M: once all have returned, each of the M events was returned by
\* exactly one call and no unpublished event is left in the outbox.
C2_AllClaimedExactlyOnce ==
    (AllReturned /\ Cardinality(participants) * batch_size >= enqueued)
        => /\ \A s \in 1..enqueued : returned[s] = 1
           /\ events = << >>
           /\ Unpublished(outbox_events) = {}

\* Two claimers with batch size 1 have emptied an outbox of two events.
C2_Witness ==
    /\ AllReturned
    /\ participants = Claimers
    /\ batch_size = 1
    /\ enqueued = 2
    /\ backend = "postgres"

\* C3: published_at is set exactly once: once an event's published_at is set, no later
\* operation (mark_published of its id included) changes it.
C3_PublishedAtSetOnce ==
    [][\A i \in DOMAIN outbox_events :
          outbox_events[i].published_at # None
              => outbox_events'[i].published_at = outbox_events[i].published_at]_vars

\* C4: every enqueue returns an identity strictly greater than every identity returned
\* by an earlier enqueue.
C4_EnqueueIdsIncrease ==
    \A i, j \in DOMAIN enq_ids : i < j => enq_ids[i] < enq_ids[j]

\* C5: with no concurrent claimer, claim_batch(size) returns exactly the min(size, U)
\* oldest unpublished events by enqueue order, listed in that order, each with
\* published_at set.
C5_ClaimReturnsOldestInOrder ==
    last_batch.done =>
        LET n == Min(last_batch.size, Len(last_batch.pre))
        IN /\ Len(last_batch.events) = n
           /\ \A i \in 1..n : /\ last_batch.events[i].seq = last_batch.pre[i]
                              /\ last_batch.events[i].published_at # None

----------------------------------------------------------------------------
(* Nodes: struct KnowledgeNode and the two node repositories. *)

KnowledgeNode(id, tenant_id, content, created_at, updated_at) ==
    [id |-> id, tenant_id |-> tenant_id, kind |-> content.kind,
     payload_json |-> content.payload_json, vector |-> content.vector,
     provenance |-> content.provenance, policy |-> content.policy,
     created_at |-> created_at, updated_at |-> updated_at]

\* The contents the bounded callers send; the two differ in every field.
Contents ==
    {[kind |-> "note", payload_json |-> [title |-> "hello"], vector |-> None,
      provenance |-> None, policy |-> None],
     [kind |-> "doc", payload_json |-> [title |-> "world"], vector |-> Some(<<1, 0>>),
      provenance |-> Some("source"), policy |-> Some("policy")]}

\* Who built a node that is passed to upsert: the tenant_id field and the timestamps
\* the node carries are of the builder's making, not the repository's.
Builders == {[tenant_id |-> "t1", stamp |-> 0], [tenant_id |-> "t2", stamp |-> MaxClock]}

NodesSent ==
    {KnowledgeNode(id, b.tenant_id, content, b.stamp, b.stamp) :
        id \in NodeIds, b \in Builders, content \in Contents}

\* Mutant: the update branch bumps updated_at but keeps the node that was stored.
MemUpsertKeepsOld(store, tenant, node, t) ==
    LET tenant_map == store[tenant]
    IN IF node.id \in DOMAIN tenant_map
       THEN [outcome |-> "Updated",
             store |-> [store EXCEPT ![tenant][node.id].updated_at = t]]
       ELSE [outcome |-> "Created",
             store |-> [store EXCEPT ![tenant] =
                 Insert(tenant_map, node.id,
                        [node EXCEPT !.tenant_id = tenant,
                                     !.created_at = t,
                                     !.updated_at = t])]]

\* Mutant: the update branch stores the caller's created_at instead of the existing one.
MemUpsertKeepsCallerStamp(store, tenant, node, t) ==
    LET tenant_map == store[tenant]
    IN [outcome |-> IF node.id \in DOMAIN tenant_map THEN "Updated" ELSE "Created",
        store |-> [store EXCEPT ![tenant] =
            Insert(tenant_map, node.id,
                   [node EXCEPT !.tenant_id = tenant,
                                !.created_at = IF node.id \in DOMAIN tenant_map
                                               THEN node.created_at ELSE t,
                                !.updated_at = t])]]

\* In-process upsert, under the write guard: the outcome and the map afterwards.
MemUpsert(store, tenant, node, t) ==
    LET tenant_map == store[tenant]
    IN IF node.id \in DOMAIN tenant_map
       THEN [outcome |-> "Updated",
             store |-> [store EXCEPT ![tenant] =
                 Insert(tenant_map, node.id,
                        [node EXCEPT !.tenant_id = tenant,
                                     !.created_at = tenant_map[node.id].created_at,
                                     !.updated_at = t])]]
       ELSE [outcome |-> "Created",
             store |-> [store EXCEPT ![tenant] =
                 Insert(tenant_map, node.id,
                        [node EXCEPT !.tenant_id = tenant,
                                     !.created_at = t,
                                     !.updated_at = t])]]

\* guard.get(&tenant).and_then(|nodes| nodes.get(&id)).cloned()
MemGet(store, tenant, id) ==
    IF id \in DOMAIN store[tenant] THEN Some(store[tenant][id]) ELSE None

\* SELECT set_config('app.current_tenant', $1, is_local): the marker the connection's
\* next statement runs under. A local setting lasts to the end of the transaction, and
\* outside a transaction block that is the end of the set_config statement itself.
SetTenantOnConn(marker, tenant, is_local, in_transaction) ==
    IF is_local /\ ~in_transaction THEN marker ELSE Some(tenant)

\* The marker of a pooled connection that no statement has set for the session.
SessionMarker == None

\* Row-level policy of knowledge_nodes: a statement sees, and may write, only rows of
\* the tenant its marker names; a role that bypasses the policies sees every row.
PgVisible(table, marker) ==
    {i \in DOMAIN table : ~rls_enforced \/ Some(table[i].tenant_id) = marker}

PgWritable(tenant_id, marker) == ~rls_enforced \/ Some(tenant_id) = marker

\* A row of knowledge_nodes as the INSERT writes it: the vector is not among the
\* columns it lists, created_at and updated_at take the column default now().
PgRow(node, t) ==
    [id |-> node.id, tenant_id |-> node.tenant_id, kind |-> node.kind,
     payload_json |-> node.payload_json, provenance |-> node.provenance,
     policy |-> node.policy, created_at |-> t, updated_at |-> t]

\* Mutant: ON CONFLICT (id) DO NOTHING, the second writer's node is lost.
PgUpsertDoNothing(table, tenant, node, t) ==
    IF node.id \in DOMAIN table
    THEN [outcome |-> "Updated", table |-> table]
    ELSE [outcome |-> "Created",
          table |-> Insert(table, node.id, PgRow([node EXCEPT !.tenant_id = tenant], t))]

\* INSERT ... ON CONFLICT (id) DO UPDATE SET kind, payload_json, provenance, policy,
\* updated_at = now() RETURNING (xmax = 0) AS created: one atomic statement.
PgUpsert(table, tenant, node, t) ==
    LET marker == SetTenantOnConn(SessionMarker, tenant, TRUE, FALSE)
        bound == [node EXCEPT !.tenant_id = tenant]
    IN IF ~PgWritable(bound.tenant_id, marker)
          \/ (bound.id \in DOMAIN table /\ bound.id \notin PgVisible(table, marker))
       THEN [outcome |-> "Err", table |-> table]
       ELSE IF bound.id \in DOMAIN table
       THEN [outcome |-> "Updated",
             table |-> [table EXCEPT ![bound.id] =
                 [@ EXCEPT !.kind = bound.kind,
                           !.payload_json = bound.payload_json,
                           !.provenance = bound.provenance,
                           !.policy = bound.policy,
                           !.updated_at = t]]]
       ELSE [outcome |-> "Created", table |-> Insert(table, bound.id, PgRow(bound, t))]

\* fn map_node_row: the row's columns, vector: None.
map_node_row(row) ==
    [id |-> row.id, tenant_id |-> row.tenant_id, kind |-> row.kind,
     payload_json |-> row.payload_json, vector |-> None, provenance |-> row.provenance,
     policy |-> row.policy, created_at |-> row.created_at, updated_at |-> row.updated_at]

\* SELECT ... FROM knowledge_nodes WHERE id = $1, after set_tenant_on_conn.
PgGet(table, tenant, id) ==
    LET marker == SetTenantOnConn(SessionMarker, tenant, TRUE, FALSE)
    IN IF id \in PgVisible(table, marker) THEN Some(map_node_row(table[id])) ELSE None

----------------------------------------------------------------------------
(* Callers of the node repository: an upsert is called, then applied atomically  *)
(* (under the write guard, or as the one INSERT statement); a get is one read.    *)

nonNodeVars == <<backend, now, outboxVars, scenarioVars, rls_enforced,
                 scedge_event_bus_enabled, httpVars, lookupVars, purgeVars, pager,
                 last_search, restVars>>

Calling == {c \in Callers : pending[c] # None}

UpsertCall(c, tenant, node) ==
    /\ pending[c] = None
    /\ Len(upserts) + Cardinality(Calling) < MaxUpserts
    /\ pending' = [pending EXCEPT ![c] = Some([tenant |-> tenant, node |-> node])]
    /\ last_get' = NoGet
    /\ UNCHANGED <<inner, knowledge_nodes, upserts>>

\* The history entry of an applied upsert; racing names the other callers whose call
\* for the same tenant and identity was already made when this one was applied.
Applied(c, call, outcome) ==
    [caller |-> c, tenant |-> call.tenant, node |-> call.node, outcome |-> outcome,
     at |-> now,
     racing |-> {d \in Calling \ {c} : /\ pending[d][1].tenant = call.tenant
                                       /\ pending[d][1].node.id = call.node.id}]

MemUpsertApply(c) ==
    /\ backend = "memory"
    /\ pending[c] # None
    /\ LET call == pending[c][1]
           done == MemUpsert(inner, call.tenant, call.node, now)
       IN /\ inner' = done.store
          /\ upserts' = Append(upserts, Applied(c, call, done.outcome))
    /\ pending' = [pending EXCEPT ![c] = None]
    /\ last_get' = NoGet
    /\ UNCHANGED knowledge_nodes

PgUpsertApply(c) ==
    /\ backend = "postgres"
    /\ pending[c] # None
    /\ LET call == pending[c][1]
           done == PgUpsert(knowledge_nodes, call.tenant, call.node, now)
       IN /\ knowledge_nodes' = done.table
          /\ upserts' = Append(upserts, Applied(c, call, done.outcome))
    /\ pending' = [pending EXCEPT ![c] = None]
    /\ last_get' = NoGet
    /\ UNCHANGED inner

MemGetReturns(tenant, id) ==
    /\ backend = "memory"
    /\ last_get' = [done |-> TRUE, tenant |-> tenant, id |-> id,
                    result |-> MemGet(inner, tenant, id)]
    /\ UNCHANGED <<inner, knowledge_nodes, pending, upserts>>

PgGetReturns(tenant, id) ==
    /\ backend = "postgres"
    /\ last_get' = [done |-> TRUE, tenant |-> tenant, id |-> id,
                    result |-> PgGet(knowledge_nodes, tenant, id)]
    /\ UNCHANGED <<inner, knowledge_nodes, pending, upserts>>

NextNodes ==
    \/ Tick
    \/ \E c \in Callers, t \in Tenants, node \in NodesSent :
          UpsertCall(c, t, node) /\ UNCHANGED nonNodeVars
    \/ \E c \in Callers : MemUpsertApply(c) /\ UNCHANGED nonNodeVars
    \/ \E c \in Callers : PgUpsertApply(c) /\ UNCHANGED nonNodeVars
    \/ \E t \in Tenants, id \in NodeIds : MemGetReturns(t, id) /\ UNCHANGED nonNodeVars
    \/ \E t \in Tenants, id \in NodeIds : PgGetReturns(t, id) /\ UNCHANGED nonNodeVars

SpecNodes == Init /\ [][NextNodes]_vars

----------------------------------------------------------------------------
(* Properties of the node repository. *)

Ok(i) == upserts[i].outcome # "Err"

SameTarget(i, j) ==
    /\ upserts[i].tenant = upserts[j].tenant
    /\ upserts[i].node.id = upserts[j].node.id

\* An earlier applied upsert stored a node of that identity for that tenant.
StoredBefore(i) == \E k \in 1..(i - 1) : Ok(k) /\ SameTarget(k, i)

\* The last upsert applied for the tenant and identity, if there is one.
LastUpsertOf(tenant, id) ==
    LET S == {i \in DOMAIN upserts :
                 Ok(i) /\ upserts[i].tenant = tenant /\ upserts[i].node.id = id}
    IN IF S = {} THEN None ELSE Some(upserts[CHOOSE i \in S : \A k \in S : k <= i])

Carries(got, node) ==
    /\ got # None
    /\ got[1].kind = node.kind
    /\ got[1].payload_json = node.payload_json

SecondUpsertIsUpdated ==
    \A i, j \in DOMAIN upserts :
        (i < j /\ Ok(i) /\ Ok(j) /\ SameTarget(i, j)) => upserts[j].outcome = "Updated"

\* The upsert applied last wrote at the clock's time, and a node it created got that
\* time as created_at, whatever timestamps the caller's node carried.
WriteIsStamped ==
    upserts # << >> /\ Ok(Len(upserts)) =>
        LET u == upserts[Len(upserts)]
            stored == IF backend = "memory" THEN inner[u.tenant][u.node.id]
                      ELSE knowledge_nodes[u.node.id]
        IN /\ stored.updated_at = u.at
           /\ u.outcome = "Created" => stored.created_at = u.at

\* C7: over the upserts to one (tenant, id), the stored created_at is the one the first
\* upsert fixed and never changes, the stored updated_at never decreases (the clock does
\* not go backwards), and a second upsert of the same node returns Updated.
C7_CreatedAtFixedUpdatedAtGrows ==
    [][/\ \A t \in Tenants : \A id \in DOMAIN inner[t] :
             /\ id \in DOMAIN inner'[t]
             /\ inner'[t][id].created_at = inner[t][id].created_at
             /\ inner'[t][id].updated_at >= inner[t][id].updated_at
       /\ \A id \in DOMAIN knowledge_nodes :
             /\ id \in DOMAIN knowledge_nodes'
             /\ knowledge_nodes'[id].created_at = knowledge_nodes[id].created_at
             /\ knowledge_nodes'[id].updated_at >= knowledge_nodes[id].updated_at
       /\ SecondUpsertIsUpdated'
       /\ (upserts' # upserts => WriteIsStamped')]_vars

\* The same node has been upserted twice, the second time later than the first, and it
\* carries timestamps other than the stored ones.
C7_Witness ==
    /\ backend = "memory"
    /\ Len(upserts) = 2
    /\ SameTarget(1, 2)
    /\ upserts[1].node = upserts[2].node
    /\ upserts[2].outcome = "Updated"
    /\ upserts[1].at < upserts[2].at
    /\ upserts[2].node.created_at # upserts[1].at

\* No earlier upsert stored the identity: for the tenant in the in-process map, for any
\* tenant in the relational table, whose key is the id alone.
Fresh(i) ==
    \A k \in 1..(i - 1) :
        Ok(k) => ~(/\ upserts[k].node.id = upserts[i].node.id
                   /\ (backend = "postgres" \/ upserts[k].tenant = upserts[i].tenant))

\* Upserts i and i + 1 are two callers' concurrent upserts of one absent (tenant, id):
\* the second caller's call was already made when the first one's was applied.
Raced(i) ==
    /\ i \in DOMAIN upserts
    /\ i + 1 \in DOMAIN upserts
    /\ upserts[i + 1].caller \in upserts[i].racing
    /\ Ok(i)
    /\ Ok(i + 1)
    /\ Fresh(i)

\* What the backend stores for the last node upserted under the tenant at time
\* updated_at, created at created_at (the relational table has no vector to write).
StoredAs(node, tenant, created_at, updated_at) ==
    IF backend = "memory"
    THEN inner[tenant][node.id] =
             [id |-> node.id, tenant_id |-> tenant, kind |-> node.kind,
              payload_json |-> node.payload_json, vector |-> node.vector,
              provenance |-> node.provenance, policy |-> node.policy,
              created_at |-> created_at, updated_at |-> updated_at]
    ELSE knowledge_nodes[node.id] =
             [id |-> node.id, tenant_id |-> tenant, kind |-> node.kind,
              payload_json |-> node.payload_json,
              provenance |-> node.provenance, policy |-> node.policy,
              created_at |-> created_at, updated_at |-> updated_at]

\* C8: two callers concurrently upsert the same absent (tenant, id): exactly one of them
\* observes Created and the other Updated, and the node stored afterwards is entirely
\* the node of the upsert applied last, with the created_at of the upsert applied first.
C8_ConcurrentUpsertsLinearize ==
    LET n == Len(upserts)
    IN Raced(n - 1) =>
          /\ upserts[n - 1].outcome = "Created"
          /\ upserts[n].outcome = "Updated"
          /\ StoredAs(upserts[n].node, upserts[n].tenant, upserts[n - 1].at, upserts[n].at)

\* Two racing upserts with different contents have both been applied to the relational
\* table, the second at a later time than the first.
C8_Witness ==
    /\ backend = "postgres"
    /\ Raced(1)
    /\ Len(upserts) = 2
    /\ upserts[1].node.kind # upserts[2].node.kind
    /\ upserts[1].at < upserts[2].at

\* C9: for tenants T1 # T2 and a node upserted under T1 (whose identity T2 has not
\* itself upserted), get(T2, id) returns None, on both backends.
C9_OtherTenantGetsNone ==
    (/\ last_get.done
     /\ \E i \in DOMAIN upserts :
           Ok(i) /\ upserts[i].tenant # last_get.tenant /\ upserts[i].node.id = last_get.id
     /\ LastUpsertOf(last_get.tenant, last_get.id) = None)
        => last_get.result = None

----------------------------------------------------------------------------
(* Capsules: CapsuleIngestRequest, its translation to and from nodes. *)

Max(a, b) == IF a > b THEN a ELSE b

\* impl Default for CapsuleProvenance.
CapsuleProvenanceDefault == [source |-> "", hash |-> "", version |-> None, generated_at |-> None]

\* struct CapsuleIngestRequest with its CapsuleArtifact (answer, metrics and metadata are
\* carried along untouched and left out).
CapsuleIngestRequest(key, hash, policy_tenant, ttl_seconds, expires_at) ==
    [key |-> key,
     artifact |-> [policy |-> [tenant |-> policy_tenant], provenance |-> << >>,
                   ttl_seconds |-> ttl_seconds, hash |-> hash],
     expires_at |-> expires_at]

\* CapsuleArtifact::ensure_defaults
ensure_defaults(artifact) ==
    IF artifact.provenance = << >>
    THEN [artifact EXCEPT !.provenance = <<CapsuleProvenanceDefault>>]
    ELSE artifact

\* Uuid::new_v5(NAMESPACE_URL, format!("{}:{}", key, hash)): the identity stands for the
\* name it is derived from.
StableId(key, hash) == key \o ":" \o hash

\* Mutant: into_node without its two completeness checks.
into_nodeUnchecked(request, tenant_id, t) ==
    LET capsule == [request EXCEPT !.artifact = ensure_defaults(@)]
    IN [ok |-> TRUE,
        node |-> [id |-> StableId(capsule.key, capsule.artifact.hash),
                  tenant_id |-> tenant_id, kind |-> "capsule",
                  payload_json |-> capsule, vector |-> None,
                  provenance |-> Some(capsule.artifact.provenance),
                  policy |-> Some(capsule.artifact.policy),
                  created_at |-> t, updated_at |-> t]]

\* Mutant: the node keeps the identity KnowledgeNode::new made for it at time t.
into_nodeFreshId(request, tenant_id, t) ==
    LET capsule == [request EXCEPT !.artifact = ensure_defaults(@)]
    IN IF capsule.artifact.policy.tenant = "" \/ capsule.artifact.hash = ""
       THEN [ok |-> FALSE, error |-> "capsule is incomplete"]
       ELSE [ok |-> TRUE,
             node |-> [id |-> "v4:" \o ToString(t) \o ":" \o capsule.key,
                       tenant_id |-> tenant_id, kind |-> "capsule",
                       payload_json |-> capsule, vector |-> None,
                       provenance |-> Some(capsule.artifact.provenance),
                       policy |-> Some(capsule.artifact.policy),
                       created_at |-> t, updated_at |-> t]]

\* CapsuleIngestRequest::into_node
into_node(request, tenant_id, t) ==
    LET capsule == [request EXCEPT !.artifact = ensure_defaults(@)]
    IN IF capsule.artifact.policy.tenant = ""
       THEN [ok |-> FALSE, error |-> "capsule policy.tenant is required"]
       ELSE IF capsule.artifact.hash = ""
       THEN [ok |-> FALSE, error |-> "capsule artifact.hash is required"]
       ELSE [ok |-> TRUE,
             node |-> [id |-> StableId(capsule.key, capsule.artifact.hash),
                       tenant_id |-> tenant_id, kind |-> "capsule",
                       payload_json |-> capsule, vector |-> None,
                       provenance |-> Some(capsule.artifact.provenance),
                       policy |-> Some(capsule.artifact.policy),
                       created_at |-> t, updated_at |-> t]]

\* serde_json::from_value::<CapsuleIngestRequest> succeeds on the payload.
IsCapsulePayload(payload) == {"key", "artifact"} \subseteq DOMAIN payload

\* Mutant: the expiry is counted from the time of the lookup.
from_nodeCountsFromNow(node, t) ==
    IF ~IsCapsulePayload(node.payload_json) THEN None
    ELSE LET capsule == node.payload_json
             a1 == ensure_defaults(capsule.artifact)
             ttl == IF a1.ttl_seconds = None /\ capsule.expires_at # None
                    THEN Some(Max(capsule.expires_at[1] - t, 0))
                    ELSE a1.ttl_seconds
             expires_at == IF capsule.expires_at # None THEN capsule.expires_at
                           ELSE IF ttl # None THEN Some(t + ttl[1])
                           ELSE None
         IN Some([key |-> capsule.key,
                  artifact |-> [a1 EXCEPT !.ttl_seconds = ttl],
                  expires_at |-> expires_at,
                  ttl_remaining_seconds |->
                      IF expires_at # None THEN Some(Max(expires_at[1] - t, 0)) ELSE None])

\* Mutant: the remaining lifetime is the plain difference, without the floor at zero.
from_nodeNoFloor(node, t) ==
    IF ~IsCapsulePayload(node.payload_json) THEN None
    ELSE LET capsule == node.payload_json
             a1 == ensure_defaults(capsule.artifact)
             ttl == IF a1.ttl_seconds = None /\ capsule.expires_at # None
                    THEN Some(Max(capsule.expires_at[1] - node.updated_at, 0))
                    ELSE a1.ttl_seconds
             expires_at == IF capsule.expires_at # None THEN capsule.expires_at
                           ELSE IF ttl # None THEN Some(node.updated_at + ttl[1])
                           ELSE None
         IN Some([key |-> capsule.key,
                  artifact |-> [a1 EXCEPT !.ttl_seconds = ttl],
                  expires_at |-> expires_at,
                  ttl_remaining_seconds |->
                      IF expires_at # None THEN Some(expires_at[1] - t) ELSE None])

\* CapsuleLookupResponse::from_node, at time t; None when the payload is no capsule.
from_node(node, t) ==
    IF ~IsCapsulePayload(node.payload_json) THEN None
    ELSE LET capsule == node.payload_json
             a1 == ensure_defaults(capsule.artifact)
             a2 == IF a1.policy.tenant = "" THEN [a1 EXCEPT !.policy.tenant = "default"]
                   ELSE a1
             a3 == IF a2.hash = "" THEN [a2 EXCEPT !.hash = node.id] ELSE a2
             ttl == IF a3.ttl_seconds = None /\ capsule.expires_at # None
                    THEN Some(Max(capsule.expires_at[1] - node.updated_at, 0))
                    ELSE a3.ttl_seconds
             expires_at == IF capsule.expires_at # None THEN capsule.expires_at
                           ELSE IF ttl # None THEN Some(node.updated_at + ttl[1])
                           ELSE None
         IN Some([key |-> capsule.key,
                  artifact |-> [a3 EXCEPT !.ttl_seconds = ttl],
                  expires_at |-> expires_at,
                  ttl_remaining_seconds |->
                      IF expires_at # None THEN Some(Max(expires_at[1] - t, 0)) ELSE None])

\* NodeRepository::get_by_key: a node of the tenant whose capsule payload has the key,
\* None when there is none; which one, when several have it, is not settled.
MemGetByKey(store, tenant, key) ==
    LET hits == {id \in DOMAIN store[tenant] :
                    /\ IsCapsulePayload(store[tenant][id].payload_json)
                    /\ store[tenant][id].payload_json.key = key}
    IN IF hits = {} THEN {None} ELSE {Some(store[tenant][id]) : id \in hits}

PgGetByKey(table, tenant, key) ==
    LET marker == SetTenantOnConn(SessionMarker, tenant, TRUE, FALSE)
        hits == {id \in PgVisible(table, marker) :
                    /\ table[id].tenant_id = tenant
                    /\ IsCapsulePayload(table[id].payload_json)
                    /\ table[id].payload_json.key = key}
    IN IF hits = {} THEN {None} ELSE {Some(map_node_row(table[id])) : id \in hits}

----------------------------------------------------------------------------
(* POST capsule store (api_capsule_store): the handler suspends at get_by_key and  *)
(* at upsert, so a request is a read step followed by a write step.                *)

\* AppConfig.tenant_slugs and AppConfig.default_tenant_id of the modelled deployment.
TenantSlugs == [slug \in {"acme"} |-> "t2"]

DefaultTenantId == "t1"

resolve_tenant(slug) ==
    IF slug # None /\ slug[1] \in DOMAIN TenantSlugs THEN TenantSlugs[slug[1]]
    ELSE DefaultTenantId

\* The requests the bounded clients send.
StoreBodies ==
    {[tenant |-> tenant, capsule |-> CapsuleIngestRequest(key, hash, slug, None, None)] :
        tenant \in {None} \cup {Some(g) : g \in Slugs},
        key \in Keys, hash \in Hashes \cup {""}, slug \in Slugs \cup {""}}

nonHttpVars == <<backend, now, outboxVars, scenarioVars, rls_enforced,
                 scedge_event_bus_enabled, pending, upserts, last_get>>

Rejected(status, error) == [done |-> TRUE, status |-> status, error |-> error, events |-> << >>]

\* Up to the first suspension: the two request checks, resolve_tenant, get_by_key.
CapsuleStoreRead(h, body) ==
    /\ ingest[h] = Idle
    /\ ingests < MaxIngests
    /\ ingests' = ingests + 1
    /\ IF body.tenant # None /\ body.capsule.artifact.policy.tenant # body.tenant[1]
       THEN /\ last_ingest' = Rejected(400, "policy.tenant mismatch") @@ [request |-> body]
            /\ UNCHANGED ingest
       ELSE IF body.capsule.artifact.policy.tenant = ""
       THEN /\ last_ingest' = Rejected(400, "artifact.policy.tenant is required")
                                  @@ [request |-> body]
            /\ UNCHANGED ingest
       ELSE LET tenant_id == resolve_tenant(body.tenant)
            IN /\ \E existing_node \in
                      (IF backend = "memory"
                       THEN MemGetByKey(inner, tenant_id, body.capsule.key)
                       ELSE PgGetByKey(knowledge_nodes, tenant_id, body.capsule.key)) :
                      ingest' = [ingest EXCEPT ![h] =
                          [state |-> "read", tenant |-> body.tenant,
                           tenant_id |-> tenant_id, capsule |-> body.capsule, existing_node |-> existing_node,
                           overlapped |-> FALSE]]
               /\ last_ingest' = NoIngest
    /\ UNCHANGED <<inner, knowledge_nodes, latest>>

\* NodeRepository::upsert of the configured backend.
RepoUpsert(tenant, node, t) ==
    IF backend = "memory"
    THEN LET done == MemUpsert(inner, tenant, node, t)
         IN [outcome |-> done.outcome, inner |-> done.store, knowledge_nodes |-> knowledge_nodes]
    ELSE LET done == PgUpsert(knowledge_nodes, tenant, node, t)
         IN [outcome |-> done.outcome, inner |-> inner, knowledge_nodes |-> done.table]

\* The event api_capsule_store publishes after a successful upsert.
StoreEvent(outcome, existing_capsule, capsule) ==
    IF outcome = "Updated" /\ existing_capsule # None
    THEN [type |-> "SUPERSEDED_BY", tenant |-> capsule.artifact.policy.tenant,
          old_hash |-> existing_capsule[1].artifact.hash,
          new_hash |-> capsule.artifact.hash]
    ELSE [type |-> "UPSERT_NODE", tenant |-> capsule.artifact.policy.tenant,
          key |-> capsule.key, hash |-> capsule.artifact.hash]

\* What EventBus::publish can answer.
PublishResults == {"Ok", "Err"}

\* A handler that lets a failed publish fail the request.
StoreAnswerFailsWithBus(outcome, capsule, published) ==
    IF published = Some("Err")
    THEN [status |-> 500, error |-> "failed to publish scedge graph event"]
    ELSE [status |-> 200, outcome |-> outcome]

\* The answer of api_capsule_store after a successful upsert: publish_graph_event
\* returns nothing, so the answer is the same whatever the bus said.
StoreAnswer(outcome, capsule, published) ==
    [status |-> 200, outcome |-> outcome]

\* From get_by_key's return to the response: into_node, from_node of the node read,
\* upsert, and publish_graph_event when the bus is enabled.
CapsuleStoreWrite(h) ==
    /\ ingest[h] # Idle
    /\ LET r == ingest[h]
           request == [tenant |-> r.tenant, capsule |-> r.capsule]
           made == into_node(r.capsule, r.tenant_id, now)
           existing_capsule == IF r.existing_node = None THEN None
                               ELSE from_node(r.existing_node[1], now)
       IN IF ~made.ok
          THEN /\ last_ingest' = Rejected(500, made.error) @@ [request |-> request]
               /\ ingest' = [ingest EXCEPT ![h] = Idle]
               /\ UNCHANGED <<inner, knowledge_nodes, latest>>
          ELSE LET done == RepoUpsert(r.tenant_id, made.node, now)
               IN IF done.outcome = "Err"
                  THEN /\ last_ingest' = Rejected(500, "failed to upsert knowledge node")
                                             @@ [request |-> request]
                       /\ ingest' = [ingest EXCEPT ![h] = Idle]
                       /\ UNCHANGED <<inner, knowledge_nodes, latest>>
                  ELSE /\ inner' = done.inner
                       /\ knowledge_nodes' = done.knowledge_nodes
                       /\ latest' = [latest EXCEPT ![r.tenant_id][r.capsule.key] =
                                        Some(r.capsule.artifact.hash)]
                       /\ ingest' = [g \in Handlers |->
                             IF g = h THEN Idle
                             ELSE IF ingest[g] = Idle THEN Idle
                             ELSE [ingest[g] EXCEPT !.overlapped = TRUE]]
                       /\ \E published \in (IF scedge_event_bus_enabled
                                             THEN {Some(result) : result \in PublishResults}
                                             ELSE {None}) :
                             last_ingest' =
                                StoreAnswer(done.outcome, r.capsule, published) @@
                                [done |-> TRUE, request |-> request,
                                 tenant_id |-> r.tenant_id, key |-> r.capsule.key,
                                 hash |-> r.capsule.artifact.hash,
                                 prior |-> latest[r.tenant_id][r.capsule.key],
                                 overlapped |-> r.overlapped,
                                 written |-> made.node.id,
                                 published |-> published,
                                 events |-> IF scedge_event_bus_enabled
                                            THEN <<StoreEvent(done.outcome, existing_capsule,
                                                              r.capsule)>>
                                            ELSE << >>]
    /\ UNCHANGED ingests

NextIngest ==
    \/ Tick
    \/ \E h \in Handlers, body \in StoreBodies :
          CapsuleStoreRead(h, body) /\ UNCHANGED <<nonHttpVars, lookupVars, purgeVars, pager,
                                                     last_search, restVars>>
    \/ \E h \in Handlers : CapsuleStoreWrite(h) /\ UNCHANGED <<nonHttpVars, lookupVars, purgeVars, pager,
                                                     last_search, restVars>>

SpecIngest == Init /\ [][NextIngest]_vars

\* The event types that announce a first-time capsule creation.
UpsertEventTypes == {"UPSERT", "UPSERT_NODE"}

\* C10: with eventing enabled, an ingest of key K with hash H2 after an ingest of K with
\* hash H1 # H2 publishes exactly one SUPERSEDED_BY event with old_hash H1 and new_hash
\* H2 and no UPSERT event; an ingest of a key with no stored capsule publishes exactly
\* one UPSERT event.
C10_SupersessionEvent ==
    (last_ingest.done /\ last_ingest.status = 200 /\ scedge_event_bus_enabled
        /\ ~last_ingest.overlapped) =>
        /\ Len(last_ingest.events) = 1
        /\ (last_ingest.prior # None /\ last_ingest.prior[1] # last_ingest.hash) =>
              /\ last_ingest.events[1].type = "SUPERSEDED_BY"
              /\ last_ingest.events[1].old_hash = last_ingest.prior[1]
              /\ last_ingest.events[1].new_hash = last_ingest.hash
        /\ last_ingest.prior = None => last_ingest.events[1].type \in UpsertEventTypes

\* C11: an ingest publishes SUPERSEDED_BY only when a capsule is stored at the same key
\* with a hash that differs from the incoming one; a re-ingest with an unchanged hash
\* never publishes SUPERSEDED_BY.
C11_SupersededOnlyOnChangedHash ==
    (last_ingest.done /\ last_ingest.status = 200 /\ ~last_ingest.overlapped) =>
        \A i \in DOMAIN last_ingest.events :
            last_ingest.events[i].type = "SUPERSEDED_BY" =>
                /\ last_ingest.prior # None
                /\ last_ingest.prior[1] # last_ingest.hash
                /\ last_ingest.events[i].old_hash # last_ingest.events[i].new_hash

\* The number of nodes the backend stores for the tenant.
NodeCount(tenant) ==
    IF backend = "memory" THEN Cardinality(DOMAIN inner[tenant])
    ELSE Cardinality({id \in DOMAIN knowledge_nodes :
                         knowledge_nodes[id].tenant_id = tenant})

\* The ingest just answered stored the capsule its tenant and key already held.
Reingested(r) == r.done /\ r.status = 200 /\ r.prior = Some(r.hash)

\* C12: ingesting the same capsule again (same tenant, key and hash) derives the same
\* node identity, so the storage outcome is Updated and the tenant has as many nodes
\* after the second ingest as before it.
C12_ReingestIsUpdate ==
    [][\A t \in Tenants :
          (Reingested(last_ingest') /\ last_ingest'.tenant_id = t) =>
              /\ last_ingest'.outcome = "Updated"
              /\ NodeCount(t)' = NodeCount(t)]_vars

\* A capsule has been ingested a second time, later than the first.
C12_Witness ==
    /\ Reingested(last_ingest)
    /\ last_ingest.outcome = "Updated"
    /\ now > 0
    /\ NodeCount(last_ingest.tenant_id) = 1


\* The request is one api_capsule_store must refuse: no policy.tenant, no artifact.hash,
\* or a request tenant that is not the capsule's policy.tenant.
Invalid(request) ==
    \/ request.capsule.artifact.policy.tenant = ""
    \/ request.capsule.artifact.hash = ""
    \/ (request.tenant # None /\ request.tenant[1] # request.capsule.artifact.policy.tenant)

\* C13: an ingest whose capsule has an empty policy.tenant or an empty artifact.hash, or
\* whose request tenant differs from the capsule's policy.tenant, is answered with an
\* error and is never partially applied: neither the step that reads the request nor the
\* step that answers it changes the node store, and no event is published.
C13_InvalidIngestRejected ==
    [][/\ (last_ingest'.done /\ Invalid(last_ingest'.request)) =>
              /\ last_ingest'.status \in {400, 500}
              /\ "error" \in DOMAIN last_ingest'
              /\ last_ingest'.events = << >>
              /\ inner' = inner
              /\ knowledge_nodes' = knowledge_nodes
       /\ (ingests' # ingests) => (inner' = inner /\ knowledge_nodes' = knowledge_nodes)]_vars

\* A capsule without a hash was refused after get_by_key had found a stored capsule under
\* its key, while the store held a node.
C13_Witness ==
    /\ last_ingest.done
    /\ last_ingest.status = 500
    /\ last_ingest.request.capsule.artifact.hash = ""
    /\ NodeCount(resolve_tenant(last_ingest.request.tenant)) > 0


----------------------------------------------------------------------------
(* GET capsule lookup (api_capsule_lookup): one read of the repository. *)

\* NodeRepository::get_by_key of the configured backend.
RepoGetByKey(tenant, key) ==
    IF backend = "memory" THEN MemGetByKey(inner, tenant, key)
    ELSE PgGetByKey(knowledge_nodes, tenant, key)

\* The lifetimes (seconds) and expiry instants the bounded clients put in a capsule.
Ttls == {None, Some(2)}

Expiries == {None, Some(0), Some(3)}

\* The requests the bounded clients of the lookup scenario store.
TtlBodies ==
    {[tenant |-> tenant, capsule |-> CapsuleIngestRequest("k1", hash, "acme", ttl, exp)] :
        tenant \in {None, Some("acme")}, hash \in Hashes, ttl \in Ttls, exp \in Expiries}

\* struct CapsuleLookupQuery
Queries == {[tenant |-> tenant, key |-> "k1"] : tenant \in {None} \cup {Some(g) : g \in Slugs}}

CacheMiss(query) == [done |-> TRUE, status |-> 404, error |-> "cache_miss", query |-> query]

\* Mutant: the capsule's tenant is not compared with the one the query names.
TenantMismatchIgnored(query, capsule) == FALSE

\* if let Some(expected) = &query.tenant { if capsule.artifact.policy.tenant != *expected
TenantMismatch(query, capsule) ==
    query.tenant # None /\ capsule.artifact.policy.tenant # query.tenant[1]

\* api_capsule_lookup; a hit also records the node that was read and the hit before it.
CapsuleLookup(query) ==
    LET tenant_id == resolve_tenant(query.tenant)
    IN \E found \in RepoGetByKey(tenant_id, query.key) :
          IF found = None
          THEN last_lookup' = CacheMiss(query) /\ UNCHANGED seen
          ELSE LET capsule == from_node(found[1], now)
               IN IF capsule = None
                  THEN /\ last_lookup' = [done |-> TRUE, status |-> 500, query |-> query,
                                          error |-> "internal_error"]
                       /\ UNCHANGED seen
                  ELSE IF TenantMismatch(query, capsule[1])
                  THEN last_lookup' = CacheMiss(query) /\ UNCHANGED seen
                  ELSE /\ last_lookup' = [done |-> TRUE, status |-> 200, query |-> query,
                                          node |-> found[1], response |-> capsule[1],
                                          earlier |-> seen]
                       /\ seen' = <<[query |-> query, id |-> found[1].id, at |-> now,
                                     expires_at |-> capsule[1].expires_at,
                                     ttl_remaining_seconds |->
                                         capsule[1].ttl_remaining_seconds]>>

StoreOf == <<inner, knowledge_nodes>>

\* The lookup scenario stores its capsules one request at a time.
LookupHandlers == {"h1"}

NextLookup ==
    \/ Tick
    \/ \E h \in LookupHandlers, body \in TtlBodies :
          /\ CapsuleStoreRead(h, body)
          /\ last_lookup' = NoLookup
          /\ UNCHANGED <<nonHttpVars, seen, purgeVars, pager, last_search, restVars>>
    \/ \E h \in LookupHandlers :
          /\ CapsuleStoreWrite(h)
          /\ last_lookup' = NoLookup
          /\ seen' = IF StoreOf' = StoreOf THEN seen ELSE << >>
          /\ UNCHANGED <<nonHttpVars, purgeVars, pager, last_search, restVars>>
    \/ \E query \in Queries :
          /\ CapsuleLookup(query)
          /\ last_ingest' = NoIngest
          /\ UNCHANGED <<nonHttpVars, inner, knowledge_nodes, ingest, latest, ingests,
                         purgeVars, pager, last_search, restVars>>

SpecLookup == Init /\ [][NextLookup]_vars

\* The lookup just answered found a capsule.
Hit == last_lookup.done /\ last_lookup.status = 200

\* What the stored capsule was given at its ingest.
GivenTtl == last_lookup.node.payload_json.artifact.ttl_seconds

GivenExpiry == last_lookup.node.payload_json.expires_at

\* C14: a lookup of a capsule stored with only ttl_seconds = t reports expires_at =
\* node.updated_at + t; of one stored with only expires_at = e it reports ttl_seconds =
\* max(0, e - node.updated_at) and expires_at = e; and a lookup that reads the node an
\* earlier lookup read, with no change of the store in between, reports the expires_at
\* the earlier one reported.
C14_TtlExpiryDuality ==
    Hit =>
        /\ (GivenTtl # None /\ GivenExpiry = None) =>
              last_lookup.response.expires_at =
                  Some(last_lookup.node.updated_at + GivenTtl[1])
        /\ (GivenTtl = None /\ GivenExpiry # None) =>
              /\ last_lookup.response.artifact.ttl_seconds =
                    Some(Max(0, GivenExpiry[1] - last_lookup.node.updated_at))
              /\ last_lookup.response.expires_at = GivenExpiry
        /\ (last_lookup.earlier # << >>
              /\ last_lookup.earlier[1].query = last_lookup.query
              /\ last_lookup.earlier[1].id = last_lookup.node.id) =>
              last_lookup.response.expires_at = last_lookup.earlier[1].expires_at

\* A capsule stored at time 0 with a lifetime only is looked up at time 0 and again later.
C14_Witness ==
    /\ Hit
    /\ GivenTtl # None /\ GivenExpiry = None
    /\ last_lookup.earlier # << >>
    /\ last_lookup.earlier[1].query = last_lookup.query
    /\ last_lookup.earlier[1].id = last_lookup.node.id
    /\ last_lookup.earlier[1].at < now
    /\ last_lookup.response.expires_at = Some(2)

\* C15: every lookup response that reports both a ttl_seconds and an expires_at has
\* expires_at = node.updated_at + ttl_seconds.
C15_TtlAndExpiryAgree ==
    (Hit /\ last_lookup.response.artifact.ttl_seconds # None
         /\ last_lookup.response.expires_at # None) =>
        last_lookup.response.expires_at[1] =
            last_lookup.node.updated_at + last_lookup.response.artifact.ttl_seconds[1]


----------------------------------------------------------------------------
(* POST capsule purge (api_capsule_purge): the handler suspends at every           *)
(* delete_by_key, so a request is a start, one step per key, and the answer.       *)

Remove(map, ids) == [k \in DOMAIN map \ ids |-> map[k]]

\* NodeRepository::delete_by_key: removes a node of the tenant whose capsule payload has
\* the key and returns it, None when there is none. The signature returns one node;
\* whether the other nodes that have the key go with it is not settled.
MemDeleteByKey(store, tenant, key) ==
    LET hits == {id \in DOMAIN store[tenant] :
                    /\ IsCapsulePayload(store[tenant][id].payload_json)
                    /\ store[tenant][id].payload_json.key = key}
    IN IF hits = {} THEN {[node |-> None, store |-> store]}
       ELSE UNION {{[node |-> Some(store[tenant][id]),
                     store |-> [store EXCEPT ![tenant] = Remove(@, gone)]] :
                        gone \in {{id}, hits}} : id \in hits}

PgDeleteByKey(table, tenant, key) ==
    LET marker == SetTenantOnConn(SessionMarker, tenant, TRUE, FALSE)
        hits == {id \in PgVisible(table, marker) :
                    /\ table[id].tenant_id = tenant
                    /\ IsCapsulePayload(table[id].payload_json)
                    /\ table[id].payload_json.key = key}
    IN IF hits = {} THEN {[node |-> None, table |-> table]}
       ELSE UNION {{[node |-> Some(map_node_row(table[id])),
                     table |-> Remove(table, gone)] :
                        gone \in {{id}, hits}} : id \in hits}

\* NodeRepository::delete_by_key of the configured backend.
RepoDeleteByKey(tenant, key) ==
    IF backend = "memory"
    THEN {[node |-> d.node, inner |-> d.store, knowledge_nodes |-> knowledge_nodes] :
             d \in MemDeleteByKey(inner, tenant, key)}
    ELSE {[node |-> d.node, inner |-> inner, knowledge_nodes |-> d.table] :
             d \in PgDeleteByKey(knowledge_nodes, tenant, key)}

\* struct CapsulePurgeBody, as the bounded clients send it.
PurgeBodies ==
    {[tenant |-> tenant, key |-> key, keys |-> keys] :
        tenant \in {None, Some("acme")}, key \in {None, Some("k1")},
        keys \in {None, Some(<<"", "k2">>)}}

NonEmpty(k) == k # ""

\* Up to the loop: resolve_tenant and the list of keys.
CapsulePurgeBegin(body) ==
    /\ purge = Idle
    /\ purge' = [state |-> "loop", tenant |-> body.tenant,
                 tenant_id |-> resolve_tenant(body.tenant),
                 keys |-> (IF body.key # None THEN <<body.key[1]>> ELSE << >>)
                          \o (IF body.keys # None THEN SelectSeq(body.keys[1], NonEmpty)
                              ELSE << >>),
                 purged |-> 0, revoked |-> << >>, events |-> << >>, removed |-> << >>]
    /\ last_purge' = NoPurge
    /\ UNCHANGED <<inner, knowledge_nodes, latest>>

\* Mutant: an event for every key of the request, deleted or not, bus enabled or not.
RevokeEventsForEveryKey(key, deleted, capsule) ==
    IF capsule = None
    THEN <<[type |-> "REVOKE_CAPSULE", tenant |-> "default", capsule_id |-> key,
            hash |-> ""]>>
    ELSE <<[type |-> "REVOKE_CAPSULE", tenant |-> capsule[1].artifact.policy.tenant,
            capsule_id |-> capsule[1].key, hash |-> capsule[1].artifact.hash]>>

\* The events api_capsule_purge publishes for one key: REVOKE_CAPSULE when
\* delete_by_key returned a node that reads as a capsule and the bus is enabled.
RevokeEvents(key, deleted, capsule) ==
    IF deleted /\ scedge_event_bus_enabled /\ capsule # None
    THEN <<[type |-> "REVOKE_CAPSULE", tenant |-> capsule[1].artifact.policy.tenant,
            capsule_id |-> capsule[1].key, hash |-> capsule[1].artifact.hash]>>
    ELSE << >>

\* One turn of the loop: delete_by_key, and REVOKE_CAPSULE for the node it returned; a
\* delete that fails (the database cannot be reached) ends the request with an error.
CapsulePurgeKey ==
    /\ purge # Idle
    /\ purge.keys # << >>
    /\ LET key == Head(purge.keys)
       IN \/ \E d \in RepoDeleteByKey(purge.tenant_id, key) :
                LET capsule == IF d.node = None THEN None ELSE from_node(d.node[1], now)
                    tells == scedge_event_bus_enabled /\ capsule # None
                IN /\ inner' = d.inner
                   /\ knowledge_nodes' = d.knowledge_nodes
                   /\ latest' = IF d.node = None THEN latest
                                ELSE [latest EXCEPT ![purge.tenant_id][key] = None]
                   /\ purge' = [purge EXCEPT
                         !.keys = Tail(@),
                         !.purged = IF d.node = None THEN @ ELSE @ + 1,
                         !.revoked = IF tells THEN Append(@, capsule[1].artifact.hash) ELSE @,
                         !.events = @ \o RevokeEvents(key, d.node # None, capsule),
                         !.removed = IF d.node = None THEN @
                                     ELSE Append(@, [key |-> key,
                                                     hash |-> d.node[1].payload_json.artifact.hash,
                                                     stored |-> latest[purge.tenant_id][key]])]
                   /\ last_purge' = NoPurge
          \/ /\ backend = "postgres"
             /\ last_purge' = [done |-> TRUE, status |-> 500, tenant_id |-> purge.tenant_id,
                               error |-> "internal_error", failed |-> key,
                               events |-> purge.events, removed |-> purge.removed]
             /\ purge' = Idle
             /\ UNCHANGED <<inner, knowledge_nodes, latest>>

\* After the loop: the response.
CapsulePurgeEnd ==
    /\ purge # Idle
    /\ purge.keys = << >>
    /\ last_purge' = [done |-> TRUE, status |-> 200, tenant_id |-> purge.tenant_id,
                      purged |-> purge.purged, revoked_hashes |-> purge.revoked,
                      events |-> purge.events, removed |-> purge.removed]
    /\ purge' = Idle
    /\ UNCHANGED <<inner, knowledge_nodes, latest>>

\* The capsules the bounded clients of the purge scenario store; a request for tenant
\* beta with a capsule of acme is rejected.
PurgeStoreBodies ==
    {[tenant |-> tenant, capsule |-> CapsuleIngestRequest("k1", hash, "acme", None, None)] :
        tenant \in {None, Some("acme"), Some("beta")}, hash \in Hashes}

purgeFrame == <<nonHttpVars, lookupVars, pager, last_search, restVars>>

NextPurge ==
    \/ Tick
    \/ \E h \in Handlers, body \in PurgeStoreBodies :
          /\ CapsuleStoreRead(h, body)
          /\ last_purge' = NoPurge
          /\ UNCHANGED <<purgeFrame, purge>>
    \/ \E h \in Handlers :
          /\ CapsuleStoreWrite(h)
          /\ last_purge' = NoPurge
          /\ UNCHANGED <<purgeFrame, purge>>
    \/ \E body \in PurgeBodies :
          /\ CapsulePurgeBegin(body)
          /\ last_ingest' = NoIngest
          /\ UNCHANGED <<purgeFrame, ingest, ingests>>
    \/ /\ CapsulePurgeKey
       /\ last_ingest' = NoIngest
       /\ UNCHANGED <<purgeFrame, ingest, ingests>>
    \/ /\ CapsulePurgeEnd
       /\ last_ingest' = NoIngest
       /\ UNCHANGED <<purgeFrame, ingest, ingests>>

SpecPurge == Init /\ [][NextPurge]_vars

\* C16: a purge of a key that has a stored capsule removes it: from then until the key
\* is ingested again every get_by_key of that tenant and key returns absent; and with
\* eventing enabled the purge publishes, for each capsule it removed, exactly one
\* REVOKE_CAPSULE event, which names the key and carries the purged capsule's hash.
C16_PurgeRevokes ==
    /\ \A t \in Tenants, k \in Keys :
          latest[t][k] = None => RepoGetByKey(t, k) = {None}
    /\ (last_purge.done /\ scedge_event_bus_enabled) =>
          /\ Len(last_purge.events) = Len(last_purge.removed)
          /\ \A i \in DOMAIN last_purge.removed :
                /\ last_purge.events[i].type = "REVOKE_CAPSULE"
                /\ last_purge.events[i].capsule_id = last_purge.removed[i].key
                /\ last_purge.removed[i].stored = Some(last_purge.events[i].hash)


----------------------------------------------------------------------------
(* query_by_kind: both implementations, and a client that pages through one kind   *)
(* of one tenant while other callers insert nodes.                                 *)

MaxPageClock == 2

MaxPage == 3

MaxPages == 4

\* The identities KnowledgeNode::new draws (Uuid::new_v4) and their byte order.
PageIds == {"n1", "n2", "n3"}

\* The byte order of the identities: the drawn ones, and the ones capsules derive from
\* key and hash (Uuid::new_v5), which no order of keys or hashes determines.
UuidOrder == <<"n1", "n2", "n3", "k1:h2", "k2:h1", "k1:h1", "k2:h2">>

UuidRank ==
    [id \in {UuidOrder[r] : r \in DOMAIN UuidOrder} |->
        CHOOSE r \in DOMAIN UuidOrder : UuidOrder[r] = id]

\* a.created_at.cmp(&b.created_at).then(a.id.cmp(&b.id)) is Less.
ByCreatedThenId(a, b) ==
    \/ a.created_at < b.created_at
    \/ (a.created_at = b.created_at /\ UuidRank[a.id] < UuidRank[b.id])

\* ORDER BY created_at DESC, id ASC
ByCreatedDescThenId(a, b) ==
    \/ a.created_at > b.created_at
    \/ (a.created_at = b.created_at /\ UuidRank[a.id] < UuidRank[b.id])

\* nodes.sort_by(...): a finite set of nodes as the sequence the sort produces (the
\* order is total, identities being distinct).
SortByCreatedThenId(S) ==
    [i \in 1..Cardinality(S) |->
        CHOOSE s \in S : Cardinality({r \in S : ByCreatedThenId(r, s)}) = i - 1]

\* The rows in the order of ORDER BY created_at DESC, id ASC.
SortByCreatedDescThenId(S) ==
    [i \in 1..Cardinality(S) |->
        CHOOSE s \in S : Cardinality({r \in S : ByCreatedDescThenId(r, s)}) = i - 1]

Truncate(s, limit) == SubSeq(s, 1, Min(limit, Len(s)))

\* Mutant: the row after the cursor row is skipped as well.
MemQueryByKindSkipsOne(store, tenant, kind, limit, cursor) ==
    LET nodes == SortByCreatedThenId(
                     {store[tenant][id] : id \in {i \in DOMAIN store[tenant] :
                                                     store[tenant][i].kind = kind}})
        found == IF cursor = None THEN {}
                 ELSE {pos \in DOMAIN nodes : nodes[pos].id = cursor[1]}
        rest == IF found = {} THEN nodes
                ELSE SubSeq(nodes, (CHOOSE pos \in found : TRUE) + 2, Len(nodes))
    IN Truncate(rest, limit)

\* InMemoryNodeRepository::query_by_kind, under the read guard.
MemQueryByKind(store, tenant, kind, limit, cursor) ==
    LET nodes == SortByCreatedThenId(
                     {store[tenant][id] : id \in {i \in DOMAIN store[tenant] :
                                                     store[tenant][i].kind = kind}})
        found == IF cursor = None THEN {}
                 ELSE {pos \in DOMAIN nodes : nodes[pos].id = cursor[1]}
        rest == IF found = {} THEN nodes
                ELSE SubSeq(nodes, (CHOOSE pos \in found : TRUE) + 1, Len(nodes))
    IN Truncate(rest, limit)

\* PostgresNodeRepository::query_by_kind: WHERE tenant_id = $1 AND kind = $2 AND
\* ($3::uuid IS NULL OR id > $3) ORDER BY created_at DESC, id ASC LIMIT $4.
PgQueryByKind(table, tenant, kind, limit, cursor) ==
    LET marker == SetTenantOnConn(SessionMarker, tenant, TRUE, FALSE)
        rows == {table[id] : id \in {i \in PgVisible(table, marker) :
                    /\ table[i].tenant_id = tenant
                    /\ table[i].kind = kind
                    /\ (cursor = None \/ UuidRank[i] > UuidRank[cursor[1]])}}
        sorted == Truncate(SortByCreatedDescThenId(rows), limit)
    IN [i \in DOMAIN sorted |-> map_node_row(sorted[i])]

\* NodeRepository::query_by_kind of the configured backend.
RepoQueryByKind(tenant, kind, limit, cursor) ==
    IF backend = "memory" THEN MemQueryByKind(inner, tenant, kind, limit, cursor)
    ELSE PgQueryByKind(knowledge_nodes, tenant, kind, limit, cursor)

\* The nodes of the relational table as the in-process repository would hold them.
AsInner(table) ==
    [t \in Tenants |->
        [id \in {i \in DOMAIN table : table[i].tenant_id = t} |-> map_node_row(table[id])]]

Ids(nodes) == [i \in DOMAIN nodes |-> nodes[i].id]

\* The tenant and kind the client pages through, and what the other callers insert.
PagedTenant == "t1"

PagedKind == "note"

Inserted == {[tenant |-> "t1", kind |-> "note"], [tenant |-> "t1", kind |-> "doc"],
             [tenant |-> "t2", kind |-> "note"]}

StoredIds ==
    IF backend = "memory" THEN UNION {DOMAIN inner[t] : t \in Tenants}
    ELSE DOMAIN knowledge_nodes

\* The stored nodes of the paged tenant and kind.
PagedNodes ==
    IF backend = "memory"
    THEN {inner[PagedTenant][id] : id \in {i \in DOMAIN inner[PagedTenant] :
                                              inner[PagedTenant][i].kind = PagedKind}}
    ELSE {map_node_row(knowledge_nodes[id]) :
             id \in {i \in DOMAIN knowledge_nodes :
                        /\ knowledge_nodes[i].tenant_id = PagedTenant
                        /\ knowledge_nodes[i].kind = PagedKind}}

\* A caller builds a node (KnowledgeNode::new) and upserts it; the identity is new.
\* While the client is paging, the history notes where the node sorts.
InsertNode(id, what) ==
    /\ id \notin StoredIds
    /\ LET content == CHOOSE c \in Contents : c.kind = what.kind
           node == KnowledgeNode(id, what.tenant, content, now, now)
           done == RepoUpsert(what.tenant, node, now)
           paged == done.outcome # "Err" /\ what.tenant = PagedTenant
                       /\ what.kind = PagedKind
           at == {n \in PagedNodes : pager.cursor = Some(n.id)}
       IN /\ done.outcome # "Err"
          /\ inner' = done.inner
          /\ knowledge_nodes' = done.knowledge_nodes
          /\ pager' = IF pager = Idle THEN pager
                      ELSE [pager EXCEPT
                               !.quiet = FALSE,
                               !.born = IF ~paged \/ pager.finished \/ at = {} THEN @
                                        ELSE @ \cup {[id |-> id, page |-> Len(pager.pages),
                                                      before |-> \E c \in at :
                                                          ByCreatedThenId(node, c)]}]

\* The client starts paging with page size k.
PageStart(k) ==
    /\ pager = Idle
    /\ pager' = [k |-> k, cursor |-> None, pages |-> << >>, expected |-> << >>,
                 finished |-> FALSE, quiet |-> TRUE, born |-> {}]
    /\ UNCHANGED <<inner, knowledge_nodes>>

\* The client asks for the next page; an empty page ends the paging. The history keeps
\* the page the in-process implementation gives for the same nodes and arguments.
PageNext ==
    /\ pager # Idle
    /\ ~pager.finished
    /\ Len(pager.pages) < MaxPages
    /\ LET page == RepoQueryByKind(PagedTenant, PagedKind, pager.k, pager.cursor)
           same == MemQueryByKind(IF backend = "memory" THEN inner
                                  ELSE AsInner(knowledge_nodes),
                                  PagedTenant, PagedKind, pager.k, pager.cursor)
       IN pager' = [pager EXCEPT
                       !.pages = Append(@, Ids(page)),
                       !.expected = Append(@, Ids(same)),
                       !.cursor = IF page = << >> THEN @ ELSE Some(page[Len(page)].id),
                       !.finished = (page = << >>)]
    /\ UNCHANGED <<inner, knowledge_nodes>>

pagingFrame == <<backend, outboxVars, scenarioVars, rls_enforced, scedge_event_bus_enabled,
                 pending, upserts, last_get, httpVars, lookupVars, purgeVars, last_search, restVars>>

NextPaging ==
    \/ TickTo(MaxPageClock)
    \/ \E id \in PageIds, what \in Inserted :
          InsertNode(id, what) /\ UNCHANGED <<pagingFrame, now>>
    \/ \E k \in 1..MaxPage : PageStart(k) /\ UNCHANGED <<pagingFrame, now>>
    \/ PageNext /\ UNCHANGED <<pagingFrame, now>>

SpecPaging == Init /\ [][NextPaging]_vars

RECURSIVE Flatten(_)
Flatten(seqs) == IF seqs = << >> THEN << >> ELSE Head(seqs) \o Flatten(Tail(seqs))

NoDuplicates(s) == \A i, j \in DOMAIN s : i # j => s[i] # s[j]

StrictlyIncreasingTimes ==
    \A a, b \in PagedNodes : a # b => a.created_at # b.created_at

C18_RelationalPageIsInProcessPage ==
    (backend = "postgres" /\ pager # Idle) =>
        \A i \in DOMAIN pager.pages : pager.pages[i] = pager.expected[i]


\* The identities the pages after page number p returned.
LaterPages(p) == UNION {Range(pager.pages[i]) : i \in {j \in DOMAIN pager.pages : j > p}}

\* C19: while the client pages and other callers insert nodes of the paged kind between
\* pages, no node is returned in more than one page; a node inserted so that it sorts
\* before the cursor is returned by no later page, and a node inserted so that it sorts
\* after the cursor has been returned by a later page when the paging ends.
C19_PagingUnderInserts ==
    pager # Idle =>
        /\ NoDuplicates(Flatten(pager.pages))
        /\ \A b \in pager.born :
              /\ b.before => b.id \notin LaterPages(b.page)
              /\ (~b.before /\ pager.finished) => b.id \in LaterPages(b.page)


----------------------------------------------------------------------------
(* search_similar: both implementations, and callers that store nodes with vectors. *)
(* Nothing in a search depends on the time, so the clock stands still here.         *)

\* The vectors (Vec<f32>, in whole numbers) the bounded callers store and search with.
StoredVectors == {None, Some(<<1, 0>>), Some(<<0, 2>>), Some(<<2>>)}

QueryVectors == {<< >>, <<1, 0>>, <<1, 1>>, <<0, 1>>}

Limits == 0..2

\* candidate.iter().zip(vector.iter()).map(|(a, b)| a * b).sum(): zip stops at the
\* end of the shorter one.
RECURSIVE Dot(_, _)
Dot(a, b) ==
    IF a = << >> \/ b = << >> THEN 0
    ELSE Head(a) * Head(b) + Dot(Tail(a), Tail(b))

\* Mutant: the scores are sorted ascending.
MemSearchSimilarAscending(store, tenant, vector, limit) ==
    IF vector = << >> THEN {<< >>}
    ELSE LET scored == {store[tenant][id] : id \in {i \in DOMAIN store[tenant] :
                                                store[tenant][i].vector # None}}
         IN {Truncate(s, limit) :
                s \in {o \in Perms(scored) :
                          \A i, j \in DOMAIN o :
                              i < j => Dot(o[i].vector[1], vector) <= Dot(o[j].vector[1], vector)}}

\* InMemoryNodeRepository::search_similar, under the read guard: the results it may
\* return. The sort is by descending score; nodes of equal score stay in the order the
\* map's iteration gave them, which is any order.
MemSearchSimilar(store, tenant, vector, limit) ==
    IF vector = << >> THEN {<< >>}
    ELSE LET scored == {store[tenant][id] : id \in {i \in DOMAIN store[tenant] :
                                                store[tenant][i].vector # None}}
         IN {Truncate(s, limit) :
                s \in {o \in Perms(scored) :
                          \A i, j \in DOMAIN o :
                              i < j => Dot(o[i].vector[1], vector) >= Dot(o[j].vector[1], vector)}}

\* PostgresNodeRepository::search_similar: Ok(Vec::new()).
PgSearchSimilar(table, tenant, vector, limit) == {<< >>}

\* A caller builds a node with a vector and upserts it; the identity is new.
InsertVector(id, tenant, vector) ==
    /\ id \notin StoredIds
    /\ LET content == [kind |-> "note", payload_json |-> [title |-> "hello"],
                       vector |-> vector, provenance |-> None, policy |-> None]
           done == RepoUpsert(tenant, KnowledgeNode(id, tenant, content, now, now), now)
       IN /\ done.outcome # "Err"
          /\ inner' = done.inner
          /\ knowledge_nodes' = done.knowledge_nodes
    /\ last_search' = NoSearch

\* A search_similar call returns.
SearchSimilar(tenant, vector, limit) ==
    /\ \E result \in (IF backend = "memory"
                      THEN MemSearchSimilar(inner, tenant, vector, limit)
                      ELSE PgSearchSimilar(knowledge_nodes, tenant, vector, limit)) :
          last_search' = [done |-> TRUE, tenant |-> tenant, vector |-> vector,
                          limit |-> limit, result |-> result]
    /\ UNCHANGED <<inner, knowledge_nodes>>

searchFrame == <<backend, now, outboxVars, scenarioVars, rls_enforced,
                 scedge_event_bus_enabled, pending, upserts, last_get, httpVars,
                 lookupVars, purgeVars, pager, restVars>>

NextSearch ==
    \/ \E id \in PageIds, t \in Tenants, vector \in StoredVectors :
          InsertVector(id, t, vector) /\ UNCHANGED searchFrame
    \/ \E t \in Tenants, vector \in QueryVectors, limit \in Limits :
          SearchSimilar(t, vector, limit) /\ UNCHANGED searchFrame

SpecSearch == Init /\ [][NextSearch]_vars

\* The score search_similar gives a stored node for the query of the last search.
Score(node) == Dot(node.vector[1], last_search.vector)

\* The tenant's nodes that carry a vector.
Candidates(tenant) ==
    {inner[tenant][id] : id \in {i \in DOMAIN inner[tenant] : inner[tenant][i].vector # None}}

\* C20: the in-process search_similar(tenant, vector, limit) returns only nodes of that
\* tenant that carry a stored vector, at most limit of them, in non-increasing order of
\* their dot product with the query vector, and no vector-carrying node that is not
\* returned scores higher than a returned one; an empty query vector gives an empty
\* result.
C20_SearchSimilarTopK ==
    (backend = "memory" /\ last_search.done) =>
        LET result == last_search.result
        IN /\ Range(result) \subseteq Candidates(last_search.tenant)
           /\ Len(result) <= last_search.limit
           /\ \A i, j \in DOMAIN result : i < j => Score(result[i]) >= Score(result[j])
           /\ \A n \in Candidates(last_search.tenant) \ Range(result) :
                 \A i \in DOMAIN result : Score(n) <= Score(result[i])
           /\ last_search.vector = << >> => result = << >>

\* A search with limit 2 among three vector-carrying nodes of distinct scores, while the
\* other tenant is empty-handed, returns the best two, best first.
C20_Witness ==
    /\ backend = "memory" /\ last_search.done
    /\ last_search.limit = 2
    /\ Len(last_search.result) = 2
    /\ Cardinality(Candidates(last_search.tenant)) = 3
    /\ Score(last_search.result[1]) > Score(last_search.result[2])
    /\ \E n \in Candidates(last_search.tenant) \ Range(last_search.result) :
          Score(n) < Score(last_search.result[2])


----------------------------------------------------------------------------
(* The outbox with claimers that keep calling claim_batch with a size of at least  *)
(* one, producers that enqueue a bounded number of events, and acknowledgements    *)
(* (mark_published) of events a claim has returned. Every call that was started    *)
(* completes: each claimer's steps are weakly fair.                                *)

\* The identities of the events some claim_batch has returned.
ClaimedIds == {enq_ids[s] : s \in {r \in DOMAIN returned : returned[r] >= 1}}

MemClaims(c) == \E n \in 1..MaxBatch : MemClaimBatch(c, n) /\ UNCHANGED nonOutboxVars

PgBegins(c) == PgClaimBegin(c) /\ UNCHANGED nonOutboxVars

PgLocks(c) == \E n \in 1..MaxBatch : PgClaimLock(c, n) /\ UNCHANGED nonOutboxVars

PgCommits(c) == PgClaimCommit(c) /\ UNCHANGED nonOutboxVars

NextLive ==
    \/ Tick
    \/ \E t \in Tenants, k \in EnqueuedKinds : MemEnqueue(t, k) /\ UNCHANGED nonOutboxVars
    \/ \E t \in Tenants, k \in EnqueuedKinds : PgEnqueue(t, k) /\ UNCHANGED nonOutboxVars
    \/ \E c \in Claimers : MemClaims(c)
    \/ \E c \in Claimers : PgBegins(c)
    \/ \E c \in Claimers : PgLocks(c)
    \/ \E c \in Claimers : PgCommits(c)
    \/ \E ids \in SUBSET ClaimedIds : MemMarkPublished(ids) /\ UNCHANGED nonOutboxVars
    \/ \E ids \in SUBSET ClaimedIds : PgMarkPublished(ids) /\ UNCHANGED nonOutboxVars

ClaimersKeepCalling ==
    \A c \in Claimers :
        /\ WF_vars(MemClaims(c))
        /\ WF_vars(PgBegins(c))
        /\ WF_vars(PgLocks(c))
        /\ WF_vars(PgCommits(c))

SpecLive == Init /\ [][NextLive]_vars /\ ClaimersKeepCalling

\* The event of the s-th enqueue has been returned by a claim_batch and is published.
Published(s) ==
    /\ s \in DOMAIN returned
    /\ returned[s] >= 1
    /\ backend = "postgres" => outbox_events[s].published_at # None
    /\ backend = "memory" => \A i \in DOMAIN events : events[i].seq # s

\* C21: while the claimers keep calling claim_batch with a size of at least one, every
\* event that was enqueued is eventually returned by some claim_batch and marked
\* published, also when claimers contend and producers go on enqueueing (a bounded
\* number of events).
C21_EveryEventEventuallyPublished ==
    \A s \in 1..MaxEnqueue : (enqueued >= s) ~> Published(s)

\* Both events were returned, the second by a relational claim that ran while the
\* other claimer's statement was in flight.
C21_Witness ==
    /\ backend = "postgres"
    /\ enqueued = MaxEnqueue
    /\ \A s \in 1..MaxEnqueue : Published(s)
    /\ last_batch.done /\ Len(last_batch.events) = 1
    /\ \E c \in Claimers : tx[c].state = "locked"

----------------------------------------------------------------------------
(* Events of the ingest path and the outbox.                                       *)

\* An ingest has just been answered with success while the bus is enabled.
IngestSucceeded ==
    /\ last_ingest' # last_ingest
    /\ last_ingest'.done
    /\ last_ingest'.status = 200
    /\ scedge_event_bus_enabled

\* C22: with the event bus enabled, every ingest whose upsert succeeds enqueues its
\* change event into the outbox after the upsert, and the event reaches the external
\* bus only through a later outbox claim and publish, never directly from the handler.
C22_IngestEnqueuesIntoOutbox ==
    [][IngestSucceeded =>
          /\ enqueued' = enqueued + 1
          /\ last_ingest'.events = << >>]_vars

\* The ingest just answered wrote its node and was then refused by the bus.
PublishFailed(r) ==
    r.done /\ "published" \in DOMAIN r /\ r.published = Some("Err")

\* The rows the backend holds for a tenant, by node id.
StoredRows(tenant) ==
    IF backend = "memory" THEN inner[tenant]
    ELSE [id \in {i \in DOMAIN knowledge_nodes : knowledge_nodes[i].tenant_id = tenant} |->
             knowledge_nodes[id]]

----------------------------------------------------------------------------
(* The node handlers of the HTTP transport (api_store, api_lookup) and the         *)
(* dashboard they record into.                                                     *)

\* const MAX_HISTORY
MAX_HISTORY == 200

MaxApiCalls == 3

\* struct HistoryEvent
HistoryEvent(event_type, tenant, detail, t) ==
    [timestamp |-> t, event_type |-> event_type, tenant_id |-> tenant, detail |-> detail]

\* Mutant: a full history drops its newest event, not its oldest.
push_historyDropsNewest(history, event) ==
    <<event>> \o (IF Len(history) = MAX_HISTORY THEN Tail(history) ELSE history)

\* DashboardData::push_history: newest first, the oldest dropped when full.
push_history(history, event) ==
    <<event>> \o (IF Len(history) = MAX_HISTORY
                  THEN SubSeq(history, 1, Len(history) - 1) ELSE history)

\* DashboardHandle::record_store
record_store(data, tenant, kind, node_id, created, t) ==
    [data EXCEPT !.total_stores = @ + 1,
                 !.last_updated = Some(t),
                 !.history = push_history(@, HistoryEvent("STORE", tenant,
                     [node_id |-> node_id, kind |-> kind, created |-> created], t))]

\* DashboardHandle::record_lookup
record_lookup(data, tenant, node_id, hit, t) ==
    [data EXCEPT !.total_lookups = @ + 1,
                 !.cache_hits = IF hit THEN @ + 1 ELSE @,
                 !.cache_misses = IF hit THEN @ ELSE @ + 1,
                 !.last_updated = Some(t),
                 !.history = push_history(@, HistoryEvent("LOOKUP", tenant,
                     [node_id |-> node_id, hit |-> hit], t))]

\* DashboardHandle::record_purge
record_purge(data, tenant, detail, t) ==
    [data EXCEPT !.total_purges = @ + 1,
                 !.last_updated = Some(t),
                 !.history = push_history(@, HistoryEvent("PURGE", tenant, detail, t))]

\* DashboardHandle::clear_history
clear_history(data) == [data EXCEPT !.history = << >>]

\* The requests the bounded clients send to the node handlers.
ApiContents == {[kind |-> "note", payload_json |-> [title |-> "hello"], vector |-> None,
                 provenance |-> None, policy |-> None]}

StoreRequests ==
    {[tenant_id |-> tenant_id, node_id |-> node_id, kind |-> c.kind, payload |-> c.payload_json] :
        tenant_id \in {None} \cup {Some(t) : t \in Tenants},
        node_id \in {None} \cup {Some(id) : id \in NodeIds},
        c \in ApiContents}

LookupRequests ==
    {[tenant_id |-> tenant_id, node_id |-> node_id] :
        tenant_id \in {None} \cup {Some(t) : t \in Tenants}, node_id \in NodeIds}

\* The ids Uuid::new_v4() can still draw: those no stored node has.
FreshIds ==
    NodeIds \ (DOMAIN knowledge_nodes \cup UNION {DOMAIN inner[t] : t \in Tenants})

ApiCalls == dashboard.total_stores + dashboard.total_lookups

\* api_lookup's Err arm: the error is logged, a miss is recorded and answered.
LookupFailed(err) == [found |-> FALSE, node |-> None]

\* POST node store (api_store). pool.acquire() fails when the database cannot be
\* reached; expect() on a failed upsert panics, which ends the handler without an
\* answer.
ApiStore(req, reachable) ==
    /\ ApiCalls < MaxApiCalls
    /\ LET tenant == IF req.tenant_id = None THEN DefaultTenantId ELSE req.tenant_id[1]
           content == [kind |-> req.kind, payload_json |-> req.payload, vector |-> None,
                       provenance |-> None, policy |-> None]
       IN \E new_id \in (IF req.node_id = None THEN FreshIds ELSE {req.node_id[1]}) :
             LET node == KnowledgeNode(new_id, tenant, content, now, now)
                 done == IF backend = "postgres" /\ ~reachable
                         THEN [outcome |-> "Err", inner |-> inner,
                               knowledge_nodes |-> knowledge_nodes]
                         ELSE RepoUpsert(tenant, node, now)
             IN IF done.outcome = "Err"
                THEN /\ last_api' = [done |-> TRUE, op |-> "store", request |-> req,
                                     storage |-> "Err", aborted |-> TRUE]
                     /\ UNCHANGED <<inner, knowledge_nodes, dashboard>>
                ELSE /\ inner' = done.inner
                     /\ knowledge_nodes' = done.knowledge_nodes
                     /\ dashboard' = record_store(dashboard, tenant, node.kind, node.id,
                                                  done.outcome = "Created", now)
                     /\ last_api' = [done |-> TRUE, op |-> "store", request |-> req,
                                     storage |-> "Ok", aborted |-> FALSE,
                                     response |-> [node_id |-> node.id,
                                                   created |-> done.outcome = "Created"]]

\* POST node lookup (api_lookup).
ApiLookup(req, reachable) ==
    /\ ApiCalls < MaxApiCalls
    /\ LET tenant == IF req.tenant_id = None THEN DefaultTenantId ELSE req.tenant_id[1]
           result == IF backend = "memory" THEN [ok |-> TRUE, node |-> MemGet(inner, tenant, req.node_id)]
                     ELSE IF ~reachable THEN [ok |-> FALSE]
                     ELSE [ok |-> TRUE, node |-> PgGet(knowledge_nodes, tenant, req.node_id)]
       IN IF result.ok
          THEN /\ dashboard' = record_lookup(dashboard, tenant, req.node_id,
                                             result.node # None, now)
               /\ last_api' = [done |-> TRUE, op |-> "lookup", request |-> req,
                               storage |-> "Ok", aborted |-> FALSE,
                               response |-> [found |-> result.node # None,
                                             node |-> result.node]]
          ELSE /\ dashboard' = record_lookup(dashboard, tenant, req.node_id, FALSE, now)
               /\ last_api' = [done |-> TRUE, op |-> "lookup", request |-> req,
                               storage |-> "Err", aborted |-> FALSE,
                               response |-> LookupFailed("acquire connection")]
    /\ UNCHANGED <<inner, knowledge_nodes>>

apiFrame == <<backend, now, outboxVars, scenarioVars, rls_enforced, scedge_event_bus_enabled,
              pending, upserts, last_get, httpVars, lookupVars, purgeVars, pager,
              last_search, edges, knowledge_edges, last_neighbors>>

NextApi ==
    \/ Tick
    \/ \E req \in StoreRequests, reachable \in BOOLEAN :
          ApiStore(req, reachable) /\ UNCHANGED apiFrame
    \/ \E req \in LookupRequests, reachable \in BOOLEAN :
          ApiLookup(req, reachable) /\ UNCHANGED apiFrame

SpecApi == Init /\ [][NextApi]_vars

\* The answers of a request that storage served: found or not found, stored or updated.
NormalAnswer(response) ==
    DOMAIN response = {"found", "node"} \/ DOMAIN response = {"node_id", "created"}

\* C24: a storage failure during a node store or node lookup request is answered with
\* a failure that differs from every normal answer; it is never answered as not-found
\* and never ends the handler without an answer.
C24_StorageFailureIsSurfaced ==
    (last_api.done /\ last_api.storage = "Err") =>
        /\ ~last_api.aborted
        /\ ~NormalAnswer(last_api.response)

----------------------------------------------------------------------------
(* Edges: struct KnowledgeEdge and the two edge repositories. *)

MaxEdges == 2

Rels == {"RELATED", "CITES"}

\* The identities Uuid::new_v4() gives the nodes that neighbors builds: the i-th node
\* of a result gets a new identity, never that of a stored node.
GeneratedId(i) == <<"new_v4", i>>

\* struct KnowledgeEdge; the id is new for every edge.
KnowledgeEdge(id, tenant, src, dst, rel, t) ==
    [id |-> id, tenant_id |-> tenant, src |-> src, dst |-> dst, rel |-> rel,
     weight |-> 1, props |-> None, created_at |-> t]

EdgeCount ==
    IF backend = "memory"
    THEN Cardinality(UNION {{<<t, i>> : i \in DOMAIN edges[t]} : t \in Tenants})
    ELSE Len(knowledge_edges)

\* Mutant: an edge that is already stored with the same ends and relation is not
\* stored again.
MemLinkOnce(lists, tenant, src, dst, rel, id, t) ==
    IF \E i \in DOMAIN lists[tenant] :
          /\ lists[tenant][i][2].src = src /\ lists[tenant][i][2].dst = dst
          /\ lists[tenant][i][2].rel = rel
    THEN lists
    ELSE [lists EXCEPT ![tenant] =
             Append(@, <<src, KnowledgeEdge(id, tenant, src, dst, rel, t)>>)]

\* Mutant: one list of edges for all tenants.
MemLinkShared(lists, tenant, src, dst, rel, id, t) ==
    [other \in DOMAIN lists |->
        Append(lists[other], <<src, KnowledgeEdge(id, tenant, src, dst, rel, t)>>)]

\* InMemoryEdgeRepository::link: guard.entry(tenant).or_insert_with(Vec::new).push(..)
MemLink(lists, tenant, src, dst, rel, id, t) ==
    [lists EXCEPT ![tenant] = Append(@, <<src, KnowledgeEdge(id, tenant, src, dst, rel, t)>>)]

\* The elements of a sequence that satisfy the filter, in order.
RECURSIVE Matching(_, _, _)
Matching(list, id, rel) ==
    IF list = << >> THEN << >>
    ELSE LET head == list[1]
             rest == Matching(Tail(list), id, rel)
         IN IF head[1] = id /\ (rel = None \/ rel[1] = head[2].rel)
            THEN <<head>> \o rest ELSE rest

\* KnowledgeNode::new(tenant, kind, payload) with the identity it draws.
NewKnowledgeNode(id, tenant, kind, payload, t) ==
    [id |-> id, tenant_id |-> tenant, kind |-> kind, payload_json |-> payload,
     vector |-> None, provenance |-> None, policy |-> None,
     created_at |-> t, updated_at |-> t]

\* InMemoryEdgeRepository::neighbors: filter, take(limit), and a node made from each
\* edge: kind is the relation, the payload names the target.
MemNeighbors(lists, tenant, id, rel, limit, t) ==
    LET hits == Matching(lists[tenant], id, rel)
        taken == SubSeq(hits, 1, Min(limit, Len(hits)))
    IN [i \in DOMAIN taken |->
           NewKnowledgeNode(GeneratedId(i), tenant, taken[i][2].rel,
                            [target |-> taken[i][2].dst], t)]

\* PostgresEdgeRepository::link: one INSERT under the connection's marker.
PgLink(table, tenant, src, dst, rel, id, t) ==
    LET marker == SetTenantOnConn(SessionMarker, tenant, TRUE, FALSE)
    IN IF ~PgWritable(tenant, marker) THEN [ok |-> FALSE, table |-> table]
       ELSE [ok |-> TRUE,
             table |-> Append(table, KnowledgeEdge(id, tenant, src, dst, rel, t))]

\* PostgresEdgeRepository::neighbors: the join of the tenant's edges leaving id with
\* the node rows, newest edge first, LIMIT; edges created at the same instant come in
\* any order, so this is the set of the possible results.
PgNeighbors(edge_table, node_table, tenant, id, rel, limit) ==
    LET marker == SetTenantOnConn(SessionMarker, tenant, TRUE, FALSE)
        joined == {i \in DOMAIN edge_table :
                      /\ ~rls_enforced \/ Some(edge_table[i].tenant_id) = marker
                      /\ edge_table[i].tenant_id = tenant
                      /\ edge_table[i].src = id
                      /\ rel = None \/ rel[1] = edge_table[i].rel
                      /\ edge_table[i].dst \in PgVisible(node_table, marker)}
        orders == {p \in Perms(joined) :
                      \A a, b \in DOMAIN p :
                          a < b => edge_table[p[a]].created_at >= edge_table[p[b]].created_at}
    IN {[i \in 1..Min(limit, Len(p)) |-> map_node_row(node_table[edge_table[p[i]].dst])] :
           p \in orders}

\* EdgeRepository::link of the configured backend.
Link(tenant, src, dst, rel) ==
    /\ EdgeCount < MaxEdges
    /\ IF backend = "memory"
       THEN /\ edges' = MemLink(edges, tenant, src, dst, rel, EdgeCount + 1, now)
            /\ UNCHANGED knowledge_edges
       ELSE /\ knowledge_edges' =
                  PgLink(knowledge_edges, tenant, src, dst, rel, EdgeCount + 1, now).table
            /\ UNCHANGED edges
    /\ last_neighbors' = NoNeighbors
    /\ UNCHANGED <<inner, knowledge_nodes>>

\* EdgeRepository::neighbors of the configured backend.
Neighbors(tenant, id, rel, hops, limit) ==
    /\ \E result \in (IF backend = "memory"
                      THEN {MemNeighbors(edges, tenant, id, rel, limit, now)}
                      ELSE PgNeighbors(knowledge_edges, knowledge_nodes, tenant, id, rel,
                                       limit)) :
          last_neighbors' = [done |-> TRUE, tenant |-> tenant, id |-> id, rel |-> rel,
                             hops |-> hops, limit |-> limit, result |-> result]
    /\ UNCHANGED <<inner, knowledge_nodes, edges, knowledge_edges>>

\* NodeRepository::upsert of a node the edges can point at.
StoreNode(tenant, node) ==
    /\ LET done == RepoUpsert(tenant, node, now)
       IN /\ done.outcome # "Err"
          /\ ~(inner = done.inner /\ knowledge_nodes = done.knowledge_nodes)
          /\ inner' = done.inner
          /\ knowledge_nodes' = done.knowledge_nodes
    /\ last_neighbors' = NoNeighbors
    /\ UNCHANGED <<edges, knowledge_edges>>

\* The nodes the bounded callers store: built for tenant t1 whatever tenant they are
\* stored under, the second with a vector.
EdgeNodes ==
    {[NewKnowledgeNode(id, "t1", "note", [title |-> id], 0) EXCEPT
         !.vector = IF id = "n2" THEN Some(<<1, 0>>) ELSE None] : id \in NodeIds}

Hops == {1}

\* The nodes the bounded callers link from; neighbors is asked about every node.
EdgeSources == {"n1"}

NeighborLimits == 0..2

edgeFrame == <<backend, now, outboxVars, scenarioVars, rls_enforced, scedge_event_bus_enabled,
               pending, upserts, last_get, httpVars, lookupVars, purgeVars, pager,
               last_search, dashboard, last_api>>

NextEdges ==
    \/ \E tenant \in Tenants, node \in EdgeNodes :
          StoreNode(tenant, node) /\ UNCHANGED edgeFrame
    \/ \E tenant \in Tenants, src \in EdgeSources, dst \in NodeIds, rel \in Rels :
          Link(tenant, src, dst, rel) /\ UNCHANGED edgeFrame
    \/ \E tenant \in Tenants, id \in NodeIds, rel \in {None} \cup {Some(r) : r \in Rels},
          hops \in Hops, limit \in NeighborLimits :
          Neighbors(tenant, id, rel, hops, limit) /\ UNCHANGED edgeFrame

SpecEdges == Init /\ [][NextEdges]_vars

\* The edges stored for a tenant, whatever the backend.
TenantEdges(tenant) ==
    IF backend = "memory" THEN {edges[tenant][i][2] : i \in DOMAIN edges[tenant]}
    ELSE {knowledge_edges[i] : i \in {j \in DOMAIN knowledge_edges :
                                          knowledge_edges[j].tenant_id = tenant}}

\* The tenant's edges that a neighbors call asks about and whose destination is a
\* stored node of the tenant.
Leaving(q) ==
    {e \in TenantEdges(q.tenant) :
        /\ e.src = q.id
        /\ q.rel = None \/ q.rel[1] = e.rel
        /\ e.dst \in DOMAIN StoredRows(q.tenant)}

\* C25: neighbors(tenant, id, rel, 1, limit) returns the stored destination nodes of
\* the tenant's edges that leave id (with relation rel when one is given), each with
\* the destination node's own identity, kind and payload, on either backend; a tenant
\* without such edges gets the empty result.
C25_NeighborsAreStoredDestinations ==
    (last_neighbors.done /\ last_neighbors.hops = 1) =>
        LET q == last_neighbors
        IN /\ Len(q.result) = Min(q.limit, Cardinality(Leaving(q)))
           /\ \A i \in DOMAIN q.result :
                 \E e \in Leaving(q) :
                    /\ q.result[i].id = e.dst
                    /\ q.result[i].kind = StoredRows(q.tenant)[e.dst].kind
                    /\ q.result[i].payload_json = StoredRows(q.tenant)[e.dst].payload_json

----------------------------------------------------------------------------
(* The remaining lifetime a capsule lookup reports. *)

\* The lookup just answered read the node the lookup before it read, with the same
\* query and no change of the store in between.
Repeated ==
    /\ Hit
    /\ last_lookup.earlier # << >>
    /\ last_lookup.earlier[1].query = last_lookup.query
    /\ last_lookup.earlier[1].id = last_lookup.node.id

\* C26: a lookup response has ttl_remaining_seconds exactly when it has expires_at; the
\* value is max(0, expires_at - now) at the time of the lookup, never negative, and not
\* larger than the value the lookup before it reported when no write came in between; a
\* capsule stored with neither ttl_seconds nor expires_at reports neither.
C26_TtlRemaining ==
    Hit =>
        LET response == last_lookup.response
        IN /\ (response.ttl_remaining_seconds # None) <=> (response.expires_at # None)
           /\ response.expires_at # None =>
                 /\ response.ttl_remaining_seconds[1] = Max(0, response.expires_at[1] - now)
                 /\ response.ttl_remaining_seconds[1] >= 0
           /\ (Repeated /\ response.ttl_remaining_seconds # None) =>
                 /\ last_lookup.earlier[1].ttl_remaining_seconds # None
                 /\ response.ttl_remaining_seconds[1] <=
                       last_lookup.earlier[1].ttl_remaining_seconds[1]
           /\ (GivenTtl = None /\ GivenExpiry = None) =>
                 /\ response.expires_at = None
                 /\ response.ttl_remaining_seconds = None
                 /\ response.artifact.ttl_seconds = None

\* A capsule whose expiry lies in the past is looked up twice, the second time later,
\* and reports zero, after an earlier report of zero.
C26_Witness ==
    /\ Repeated
    /\ last_lookup.earlier[1].at < now
    /\ last_lookup.response.expires_at = Some(0)
    /\ last_lookup.response.ttl_remaining_seconds = Some(0)

\* A capsule with time left is looked up twice and the second report is smaller.
C26_WitnessDecreases ==
    /\ Repeated
    /\ last_lookup.response.ttl_remaining_seconds # None
    /\ last_lookup.response.ttl_remaining_seconds[1] <
          last_lookup.earlier[1].ttl_remaining_seconds[1]

----------------------------------------------------------------------------
(* Tenant isolation of the in-process backend. *)

RelFilters == {None} \cup {Some(r) : r \in Rels}

\* Everything a tenant can read: the result of every get, query_by_kind,
\* search_similar and neighbors call of the bounded callers, given the node map and
\* the edge lists.
TenantView(store, lists, tenant, t) ==
    [get |-> [id \in NodeIds |-> MemGet(store, tenant, id)],
     query_by_kind |->
        [a \in {"note", "RELATED"} \X Limits \X ({None} \cup {Some(id) : id \in NodeIds}) |->
            MemQueryByKind(store, tenant, a[1], a[2], a[3])],
     search_similar |->
        [a \in QueryVectors \X Limits |-> MemSearchSimilar(store, tenant, a[1], a[2])],
     neighbors |->
        [a \in NodeIds \X RelFilters \X NeighborLimits |->
            MemNeighbors(lists, tenant, a[1], a[2], a[3], t)]]

\* The step is an upsert or a link made under the tenant.
ActsUnder(tenant) ==
    \/ \E node \in EdgeNodes : StoreNode(tenant, node)
    \/ \E src \in EdgeSources, dst \in NodeIds, rel \in Rels : Link(tenant, src, dst, rel)

\* C27: in the in-process backend no upsert or link made under a tenant T2, also one
\* that reuses a node identity T1 uses, changes the result of any get, query_by_kind,
\* search_similar or neighbors call under a tenant T1 # T2; and every node stored
\* under a tenant carries that tenant's id, whatever tenant_id the caller's node had.
C27_InProcessTenantsIsolated ==
    [][(backend = "memory" /\ <<inner', edges'>> # <<inner, edges>>) =>
          /\ \A t2 \in Tenants :
                ActsUnder(t2) =>
                   \A t1 \in Tenants \ {t2} :
                      TenantView(inner', edges', t1, now) = TenantView(inner, edges, t1, now)
          /\ \A t \in Tenants :
                \A id \in DOMAIN inner'[t] : inner'[t][id].tenant_id = t]_vars

\* Both tenants have stored a node under the same identity and linked from it, and
\* tenant t2, storing a node built for t1, is asked for its neighbors.
C27_Witness ==
    /\ backend = "memory"
    /\ DOMAIN inner["t1"] = NodeIds
    /\ "n2" \in DOMAIN inner["t2"]
    /\ inner["t2"]["n2"].tenant_id = "t2"
    /\ Len(edges["t1"]) = 1
    /\ Len(edges["t2"]) = 1
    /\ last_neighbors.done
    /\ last_neighbors.tenant = "t2"
    /\ Len(last_neighbors.result) = 1

----------------------------------------------------------------------------
(* Capsule nodes per key. *)

\* The stored capsule nodes of a tenant that have the key.
CapsuleNodes(tenant, key) ==
    {id \in DOMAIN StoredRows(tenant) :
        /\ IsCapsulePayload(StoredRows(tenant)[id].payload_json)
        /\ StoredRows(tenant)[id].payload_json.key = key}

\* C28: after any sequence of capsule ingests and purges a tenant holds at most one
\* stored capsule node per key: an ingest of a key with a new hash replaces the node
\* stored for the key, so get_by_key is unambiguous and one purge leaves no capsule.
C28_OneCapsuleNodePerKey ==
    \A tenant \in Tenants, key \in Keys : Cardinality(CapsuleNodes(tenant, key)) <= 1

----------------------------------------------------------------------------
(* Events and storage outcomes of the capsule handlers. *)

\* How many of the events announce a first-time creation.
UpsertEvents(published) ==
    Cardinality({i \in DOMAIN published : published[i].type \in UpsertEventTypes})

\* C29: for any interleaving of concurrent ingests of the same key with eventing
\* enabled, the number of UPSERT events equals the number of ingests whose upsert
\* returned Created. The counts agree after every answered ingest exactly when each
\* ingest publishes one UPSERT event if its upsert returned Created and none otherwise.
C29_UpsertEventsMatchCreated ==
    (last_ingest.done /\ last_ingest.status = 200 /\ scedge_event_bus_enabled) =>
        UpsertEvents(last_ingest.events) = (IF last_ingest.outcome = "Created" THEN 1 ELSE 0)

\* The backend holds a node of that identity (in the in-process map, for the tenant).
Holds(tenant, id) ==
    IF backend = "memory" THEN id \in DOMAIN inner[tenant]
    ELSE id \in DOMAIN knowledge_nodes

\* C30: an event is published only after the storage operation it reports has
\* succeeded: an ingest that is rejected or whose upsert fails, and a purge turn whose
\* key is absent or whose delete fails, publish nothing; and with eventing disabled no
\* ingest and no purge publishes anything.
C30_EventsOnlyAfterStorageSuccess ==
    [][/\ (last_ingest' # last_ingest /\ last_ingest'.done) =>
             /\ last_ingest'.status # 200 => last_ingest'.events = << >>
             /\ last_ingest'.events # << >> =>
                   /\ scedge_event_bus_enabled
                   /\ last_ingest'.outcome \in {"Created", "Updated"}
                   /\ \A t \in Tenants, id \in {StableId(k, h) : k \in Keys, h \in Hashes} :
                         (t = last_ingest'.tenant_id /\ id = last_ingest'.written) =>
                            Holds(t, id)'
       /\ (purge = Idle /\ purge' # Idle) => purge'.events = << >>
       /\ (purge # Idle /\ purge' # Idle /\ purge'.events # purge.events) =>
             /\ scedge_event_bus_enabled
             /\ Len(purge'.events) = Len(purge.events) + 1
             /\ \A t \in Tenants : t = purge.tenant_id => NodeCount(t)' < NodeCount(t)
             /\ purge'.events[Len(purge'.events)].capsule_id = Head(purge.keys)
       /\ (purge # Idle /\ last_purge'.done) => last_purge'.events = purge.events
       /\ ~scedge_event_bus_enabled =>
             /\ last_ingest'.done => last_ingest'.events = << >>
             /\ purge' # Idle => purge'.events = << >>
             /\ last_purge'.done => last_purge'.events = << >>]_vars

\* A purge of two keys revoked the first and was ended by a failed delete of the second.
C30_Witness ==
    /\ last_purge.done
    /\ last_purge.status = 500
    /\ Len(last_purge.events) = 1
    /\ Len(last_purge.removed) = 1

\* An ingest was refused by the backend, or rejected, after an earlier purge, and
\* published nothing.
C30_WitnessRefusedIngest ==
    /\ scedge_event_bus_enabled
    /\ last_ingest.done
    /\ last_ingest.status \in {400, 500}
    /\ last_ingest.events = << >>

----------------------------------------------------------------------------
(* The tenant a capsule lookup names. *)

\* C31: a capsule lookup that names a tenant slug never returns a capsule whose
\* artifact.policy.tenant differs from that slug; when the stored capsules of the key
\* all belong to other slugs the lookup is answered as a cache miss (404), as for an
\* absent key.
C31_LookupHonoursNamedTenant ==
    (last_lookup.done /\ last_lookup.query.tenant # None) =>
        LET query == last_lookup.query
            nodes == CapsuleNodes(resolve_tenant(query.tenant), query.key)
            rows == StoredRows(resolve_tenant(query.tenant))
        IN /\ Hit => last_lookup.response.artifact.policy.tenant = query.tenant[1]
           /\ (\A id \in nodes :
                  rows[id].payload_json.artifact.policy.tenant # query.tenant[1]) =>
                 last_lookup = CacheMiss(query)

\* A lookup for slug beta of a key under which a capsule of acme is stored was answered
\* as a cache miss.
C31_Witness ==
    /\ last_lookup.done
    /\ last_lookup.query.tenant = Some("beta")
    /\ CapsuleNodes(resolve_tenant(last_lookup.query.tenant), last_lookup.query.key) # {}
    /\ last_lookup = CacheMiss(last_lookup.query)

----------------------------------------------------------------------------
(* Capsule requests of several tenant slugs: acme is in the slug table, beta and   *)
(* gamma are not and resolve to the default tenant.                                *)

AllSlugs == Slugs \cup {"gamma"}

\* The requests of the bounded clients: each slug stores, purges and looks up under
\* its own name.
SlugBodies ==
    {[tenant |-> Some(slug), capsule |-> CapsuleIngestRequest("k1", hash, slug, None, None)] :
        slug \in AllSlugs, hash \in Hashes}

SlugPurgeBodies == {[tenant |-> Some(slug), key |-> Some("k1"), keys |-> None] : slug \in AllSlugs}

SlugQueries == {[tenant |-> Some(slug), key |-> "k1"] : slug \in AllSlugs}

slugFrame == <<nonHttpVars, pager, last_search, restVars>>

NextSlugs ==
    \/ \E h \in LookupHandlers, body \in SlugBodies :
          /\ CapsuleStoreRead(h, body)
          /\ last_lookup' = NoLookup
          /\ last_purge' = NoPurge
          /\ UNCHANGED <<slugFrame, seen, purge>>
    \/ \E h \in LookupHandlers :
          /\ CapsuleStoreWrite(h)
          /\ last_lookup' = NoLookup
          /\ last_purge' = NoPurge
          /\ seen' = IF StoreOf' = StoreOf THEN seen ELSE << >>
          /\ UNCHANGED <<slugFrame, purge>>
    \/ \E body \in SlugPurgeBodies :
          /\ CapsulePurgeBegin(body)
          /\ last_ingest' = NoIngest
          /\ last_lookup' = NoLookup
          /\ UNCHANGED <<slugFrame, seen, ingest, ingests>>
    \/ /\ CapsulePurgeKey
       /\ last_ingest' = NoIngest
       /\ last_lookup' = NoLookup
       /\ seen' = IF StoreOf' = StoreOf THEN seen ELSE << >>
       /\ UNCHANGED <<slugFrame, ingest, ingests>>
    \/ /\ CapsulePurgeEnd
       /\ last_ingest' = NoIngest
       /\ last_lookup' = NoLookup
       /\ UNCHANGED <<slugFrame, seen, ingest, ingests>>
    \/ \E query \in SlugQueries :
          /\ CapsuleLookup(query)
          /\ last_ingest' = NoIngest
          /\ last_purge' = NoPurge
          /\ UNCHANGED <<slugFrame, inner, knowledge_nodes, ingest, latest, ingests, purge>>

SpecSlugs == Init /\ [][NextSlugs]_vars

\* What a capsule lookup can answer in the current state: the status and, for a hit,
\* the capsule.
LookupAnswers(query) ==
    {IF found = None THEN <<404>>
     ELSE LET capsule == from_node(found[1], now)
          IN IF capsule = None THEN <<500>>
             ELSE IF TenantMismatch(query, capsule[1]) THEN <<404>>
             ELSE <<200, capsule[1]>> :
        found \in RepoGetByKey(resolve_tenant(query.tenant), query.key)}

\* The slugs under which the step stores or deletes: the slug of the ingest that
\* writes, the slug of the purge that takes a turn.
ActingSlugs ==
    {ingest[h].capsule.artifact.policy.tenant :
        h \in {g \in Handlers : ingest[g] # Idle /\ ingest'[g] = Idle}}
    \cup (IF purge # Idle /\ purge.keys # << >> /\ purge' # purge /\ purge.tenant # None
          THEN {purge.tenant[1]} ELSE {})

\* C32: capsule ingests and purges made under tenant slug B never change what a
\* capsule lookup under a different slug A returns for any key, also when neither slug
\* is in the slug table and both resolve to the default tenant.
C32_SlugsDoNotInterfere ==
    [][StoreOf' # StoreOf =>
          \A b \in ActingSlugs, a \in AllSlugs, key \in Keys :
             a # b => LookupAnswers([tenant |-> Some(a), key |-> key])'
                         = LookupAnswers([tenant |-> Some(a), key |-> key])]_vars

----------------------------------------------------------------------------
(* The answer of a capsule purge. *)

\* C33: in every successful purge response, purged is the number of requested keys
\* (key, and the non-empty entries of keys) for which a stored capsule was deleted,
\* absent keys add nothing and cause no error, and revoked_hashes holds the hash of
\* each purged capsule, whether or not eventing is enabled.
C33_PurgeResponseCounts ==
    (last_purge.done /\ last_purge.status = 200) =>
        /\ last_purge.purged = Len(last_purge.removed)
        /\ last_purge.revoked_hashes =
              [i \in DOMAIN last_purge.removed |-> last_purge.removed[i].hash]

----------------------------------------------------------------------------
(* A client that pages through the capsule nodes of one tenant while capsules are  *)
(* purged between its pages. Capsules are ingested before the paging starts, so    *)
(* nothing is inserted during a scan.                                              *)

ScannedTenant == "t1"

ScannedKind == "capsule"

\* A capsule is ingested: into_node and upsert, as api_capsule_store does.
ScanIngest(key, hash) ==
    /\ pager = Idle
    /\ LET made == into_node(CapsuleIngestRequest(key, hash, "acme", None, None),
                             ScannedTenant, now)
           done == RepoUpsert(ScannedTenant, made.node, now)
       IN /\ made.ok
          /\ done.outcome # "Err"
          /\ <<done.inner, done.knowledge_nodes>> # <<inner, knowledge_nodes>>
          /\ inner' = done.inner
          /\ knowledge_nodes' = done.knowledge_nodes
    /\ UNCHANGED pager

\* The client asks for the next page of capsule nodes; an empty page ends the scan.
ScanNext ==
    /\ pager # Idle
    /\ ~pager.finished
    /\ Len(pager.pages) < MaxPages
    /\ LET page == RepoQueryByKind(ScannedTenant, ScannedKind, pager.k, pager.cursor)
       IN pager' = [pager EXCEPT
                       !.pages = Append(@, Ids(page)),
                       !.expected = Append(@, Ids(page)),
                       !.cursor = IF page = << >> THEN @ ELSE Some(page[Len(page)].id),
                       !.finished = (page = << >>)]
    /\ UNCHANGED <<inner, knowledge_nodes>>

\* Between two pages a capsule is purged: delete_by_key, as api_capsule_purge does.
ScanPurge(key) ==
    /\ pager # Idle
    /\ pager.pages # << >>
    /\ ~pager.finished
    /\ \E d \in RepoDeleteByKey(ScannedTenant, key) :
          /\ d.node # None
          /\ inner' = d.inner
          /\ knowledge_nodes' = d.knowledge_nodes
          /\ pager' = [pager EXCEPT !.quiet = FALSE]

NextScan ==
    \/ TickTo(MaxPageClock)
    \/ \E key \in Keys, hash \in Hashes :
          ScanIngest(key, hash) /\ UNCHANGED <<pagingFrame, now>>
    \/ \E k \in 1..MaxPage : PageStart(k) /\ UNCHANGED <<pagingFrame, now>>
    \/ ScanNext /\ UNCHANGED <<pagingFrame, now>>
    \/ \E key \in Keys : ScanPurge(key) /\ UNCHANGED <<pagingFrame, now>>

SpecScan == Init /\ [][NextScan]_vars

\* C34: paging through query_by_kind never returns a node that an earlier page of the
\* same scan returned, also when nodes are deleted between the pages, the node whose
\* identity is the cursor included: a cursor that identifies no stored node of the
\* kind does not restart the scan from the beginning.
C34_NoNodeTwiceUnderDeletes ==
    pager # Idle => NoDuplicates(Flatten(pager.pages))

----------------------------------------------------------------------------
(* The gRPC transport: GraphService::upsert_node and parse_payload. A text is the  *)
(* sequence of its tokens: <<"space", s>> is white space, <<"punct", s>> a         *)
(* structural character, <<"string", s>> a quoted string, <<"word", s>> a bare     *)
(* word.                                                                           *)

\* serde_json::Value::Null; no object the clients send is equal to it.
JsonNull == [json |-> "null"]

InvalidArgument(message) == [ok |-> FALSE, code |-> "InvalidArgument", message |-> message]

IsSpace(token) == token[1] = "space"

\* str::trim: the text without its leading and trailing white space.
RECURSIVE trim_start(_)
trim_start(raw) ==
    IF raw # << >> /\ IsSpace(Head(raw)) THEN trim_start(Tail(raw)) ELSE raw

RECURSIVE trim_end(_)
trim_end(raw) ==
    IF raw # << >> /\ IsSpace(raw[Len(raw)]) THEN trim_end(SubSeq(raw, 1, Len(raw) - 1))
    ELSE raw

trim(raw) == trim_end(trim_start(raw))

\* The tokens of a text that are not white space, in order.
RECURSIVE Significant(_)
Significant(raw) ==
    IF raw = << >> THEN << >>
    ELSE IF IsSpace(Head(raw)) THEN Significant(Tail(raw))
    ELSE <<Head(raw)>> \o Significant(Tail(raw))

\* serde_json::from_str for the texts of the bounded clients: the literal null, the
\* empty object and an object of one string member; white space between the tokens is
\* skipped, anything else is a syntax error.
from_str(raw) ==
    LET body == Significant(raw)
    IN IF body = << <<"word", "null">> >> THEN [ok |-> TRUE, value |-> JsonNull]
       ELSE IF /\ Len(body) = 5
               /\ body[1] = <<"punct", "{">> /\ body[2][1] = "string"
               /\ body[3] = <<"punct", ":">> /\ body[4][1] = "string"
               /\ body[5] = <<"punct", "}">>
       THEN [ok |-> TRUE, value |-> (body[2][2] :> body[4][2])]
       ELSE [ok |-> FALSE, error |-> "syntax"]

\* Mutant: every text is taken for JSON null.
parse_payloadAcceptsAll(raw) == [ok |-> TRUE, value |-> JsonNull]

\* fn parse_payload
parse_payload(raw) ==
    IF trim(raw) = << >> THEN [ok |-> TRUE, value |-> JsonNull]
    ELSE LET parsed == from_str(raw)
         IN IF parsed.ok THEN parsed
            ELSE InvalidArgument("payload_json is not valid JSON")

\* Uuid::parse_str for the texts of the bounded clients: the hyphenated form and the
\* urn:uuid: form of an identity are accepted, nothing else is.
UuidTexts == [text \in {"n1", "n2", "urn:uuid:n1"} |->
                 IF text = "urn:uuid:n1" THEN "n1" ELSE text]

parse_str(text) ==
    IF text \in DOMAIN UuidTexts THEN [ok |-> TRUE, id |-> UuidTexts[text]]
    ELSE [ok |-> FALSE]

\* message UpsertNodeRequest, as the bounded clients send it.
BlankTexts == {<< >>, << <<"space", " ">>, <<"space", "\t">> >>}

JsonTexts ==
    {<< <<"punct", "{">>, <<"string", "title">>, <<"punct", ":">>, <<"space", " ">>,
        <<"string", "hello">>, <<"punct", "}">> >>,
     << <<"space", " ">>, <<"word", "null">> >>}

NotJsonTexts ==
    {<< <<"word", "not-json">> >>,
     << <<"punct", "{">>, <<"string", "title">> >>}

PayloadTexts == BlankTexts \cup JsonTexts \cup NotJsonTexts

NodeIdTexts == {"", "n1", "urn:uuid:n1", "n2", "zz", " "}

UpsertNodeRequests ==
    {[node_id |-> node_id, kind |-> "note", payload_json |-> payload_json] :
        node_id \in NodeIdTexts, payload_json \in PayloadTexts}

\* GraphServiceImpl::upsert_node. The identity is the one KnowledgeNode::new draws
\* unless the request names one.
UpsertNode(request) ==
    /\ dashboard.total_stores < MaxApiCalls
    /\ LET json_payload == parse_payload(request.payload_json)
           tenant_id == DefaultTenantId
           given == parse_str(request.node_id)
       IN IF ~json_payload.ok
          THEN /\ last_api' = [done |-> TRUE, op |-> "upsert_node", request |-> request,
                               code |-> json_payload.code]
               /\ UNCHANGED <<inner, knowledge_nodes, dashboard>>
          ELSE IF request.node_id # "" /\ ~given.ok
          THEN /\ last_api' = [done |-> TRUE, op |-> "upsert_node", request |-> request,
                               code |-> InvalidArgument("node_id must be a UUID").code]
               /\ UNCHANGED <<inner, knowledge_nodes, dashboard>>
          ELSE \E node_id \in (IF request.node_id = "" THEN FreshIds ELSE {given.id}) :
                  LET node == NewKnowledgeNode(node_id, tenant_id, request.kind,
                                               json_payload.value, now)
                      done == RepoUpsert(tenant_id, node, now)
                  IN IF done.outcome = "Err"
                     THEN /\ last_api' = [done |-> TRUE, op |-> "upsert_node",
                                          request |-> request, code |-> "Internal"]
                          /\ UNCHANGED <<inner, knowledge_nodes, dashboard>>
                     ELSE /\ inner' = done.inner
                          /\ knowledge_nodes' = done.knowledge_nodes
                          /\ dashboard' = record_store(dashboard, tenant_id, node.kind,
                                                       node.id, done.outcome = "Created",
                                                       now)
                          /\ last_api' = [done |-> TRUE, op |-> "upsert_node",
                                          request |-> request, code |-> "Ok",
                                          was_stored |-> Holds(tenant_id, node_id),
                                          response |-> [node_id |-> node_id,
                                                        created |-> done.outcome = "Created"]]

NextGrpc ==
    \/ Tick
    \/ \E request \in UpsertNodeRequests : UpsertNode(request) /\ UNCHANGED apiFrame

SpecGrpc == Init /\ [][NextGrpc]_vars


\* The node the default tenant holds under an identity.
StoredNode(id) == StoredRows(DefaultTenantId)[id]

\* C35: upsert_node rejects a payload_json that is not valid JSON, and a non-empty
\* node_id that is not a UUID, with InvalidArgument and leaves the node store and the
\* dashboard counters as they were; an empty or blank payload_json is stored as JSON
\* null; an empty node_id gives an identity no node had, and that first upsert
\* reports created = true.
C35_UpsertNodeValidates ==
    [][(last_api'.done /\ last_api'.op = "upsert_node") =>
         LET request == last_api'.request
         IN /\ (request.payload_json \in NotJsonTexts
                   \/ request.node_id \notin {""} \cup DOMAIN UuidTexts) =>
                  /\ last_api'.code = "InvalidArgument"
                  /\ StoreOf' = StoreOf
                  /\ dashboard' = dashboard
            /\ (last_api'.code = "Ok" /\ request.payload_json \in BlankTexts) =>
                  \A id \in NodeIds : id = last_api'.response.node_id =>
                      StoredNode(id)'.payload_json = JsonNull
            /\ (last_api'.code = "Ok" /\ request.node_id = "") =>
                  /\ ~last_api'.was_stored
                  /\ last_api'.response.created
                  /\ dashboard'.total_stores = dashboard.total_stores + 1]_vars

\* A request whose payload is not JSON was rejected after a node had been stored.
C35_Witness ==
    /\ last_api.done /\ last_api.op = "upsert_node"
    /\ last_api.request.payload_json \in NotJsonTexts
    /\ last_api.code = "InvalidArgument"
    /\ dashboard.total_stores > 0

\* A request with a blank payload and no node_id created a node.
C35_WitnessBlankPayload ==
    /\ last_api.done /\ last_api.op = "upsert_node"
    /\ last_api.request.payload_json \in BlankTexts \ {<< >>}
    /\ last_api.request.node_id = ""
    /\ last_api.code = "Ok"
    /\ last_api.response.created
    /\ StoredNode(last_api.response.node_id).payload_json = JsonNull

\* A request whose node_id is not a UUID was rejected.
C35_WitnessBadNodeId ==
    /\ last_api.done /\ last_api.op = "upsert_node"
    /\ last_api.request.node_id = "zz"
    /\ last_api.request.payload_json \in JsonTexts
    /\ last_api.code = "InvalidArgument"

----------------------------------------------------------------------------
(* link and neighbors as their callers see them: whether a link call succeeded,    *)
(* and neighbors asked with every number of hops. Nothing here depends on the      *)
(* time, so the clock stands still.                                                *)

MaxLinks == 2

\* hops: u8, as the bounded callers pass it.
AnyHops == {0, 1, 2}

\* The edges of a tenant in the order they were stored.
EdgeList(tenant) ==
    IF backend = "memory" THEN [i \in DOMAIN edges[tenant] |-> edges[tenant][i][2]]
    ELSE LET OfTenant(e) == e.tenant_id = tenant
         IN SelectSeq(knowledge_edges, OfTenant)

\* EdgeRepository::link of the configured backend, with its Result.
LinkCall(tenant, src, dst, rel) ==
    /\ EdgeCount < MaxLinks
    /\ LET id == EdgeCount + 1
           made == PgLink(knowledge_edges, tenant, src, dst, rel, id, now)
       IN IF backend = "memory"
          THEN /\ edges' = MemLink(edges, tenant, src, dst, rel, id, now)
               /\ UNCHANGED knowledge_edges
               /\ last_neighbors' = [done |-> FALSE, op |-> "link", ok |-> TRUE,
                                     tenant |-> tenant, src |-> src, dst |-> dst,
                                     rel |-> rel]
          ELSE /\ knowledge_edges' = made.table
               /\ UNCHANGED edges
               /\ last_neighbors' = [done |-> FALSE, op |-> "link", ok |-> made.ok,
                                     tenant |-> tenant, src |-> src, dst |-> dst,
                                     rel |-> rel]
    /\ UNCHANGED <<inner, knowledge_nodes>>

\* EdgeRepository::neighbors of the configured backend: the results a call can have.
\* Neither implementation reads hops.
RepoNeighbors(tenant, id, rel, hops, limit, t) ==
    IF backend = "memory" THEN {MemNeighbors(edges, tenant, id, rel, limit, t)}
    ELSE PgNeighbors(knowledge_edges, knowledge_nodes, tenant, id, rel, limit)

NextLinks ==
    \/ \E node \in EdgeNodes : StoreNode("t1", node) /\ UNCHANGED edgeFrame
    \/ \E tenant \in Tenants, dst \in NodeIds, rel \in Rels :
          LinkCall(tenant, "n1", dst, rel) /\ UNCHANGED edgeFrame
    \/ \E tenant \in Tenants, rel \in {None} \cup {Some(r) : r \in Rels},
          hops \in AnyHops, limit \in NeighborLimits :
          Neighbors(tenant, "n1", rel, hops, limit) /\ UNCHANGED edgeFrame

SpecLinks == Init /\ [][NextLinks]_vars

LinkSucceeded(answer) == "op" \in DOMAIN answer /\ answer.op = "link" /\ answer.ok

\* C36: each link call appends exactly one new edge for the tenant and never changes
\* or removes an existing edge (so k link calls with identical arguments leave k
\* edges); neighbors returns the same result for every value of hops and never more
\* than limit entries.
C36_LinkAppendsNeighborsIgnoreHops ==
    [][/\ LinkSucceeded(last_neighbors') =>
             \A tenant \in Tenants :
                IF tenant = last_neighbors'.tenant
                THEN /\ Len(EdgeList(tenant)') = Len(EdgeList(tenant)) + 1
                     /\ SubSeq(EdgeList(tenant)', 1, Len(EdgeList(tenant))) = EdgeList(tenant)
                     /\ LET new == EdgeList(tenant)'[Len(EdgeList(tenant)')]
                        IN /\ new.src = last_neighbors'.src
                           /\ new.dst = last_neighbors'.dst
                           /\ new.rel = last_neighbors'.rel
                           /\ \A i \in DOMAIN EdgeList(tenant) :
                                 EdgeList(tenant)[i].id # new.id
                ELSE EdgeList(tenant)' = EdgeList(tenant)
       /\ last_neighbors'.done =>
             LET q == last_neighbors'
             IN /\ Len(q.result) <= q.limit
                /\ \A hops \in AnyHops :
                      q.result \in RepoNeighbors(q.tenant, q.id, q.rel, hops, q.limit, now)
                /\ UNCHANGED <<edges, knowledge_edges>>]_vars

\* Link calls with the same arguments succeeded, and each left an edge.
C36_Witness ==
    /\ LinkSucceeded(last_neighbors)
    /\ \E tenant \in Tenants :
          /\ Len(EdgeList(tenant)) = MaxLinks
          /\ \A i \in DOMAIN EdgeList(tenant) :
                /\ EdgeList(tenant)[i].dst = EdgeList(tenant)[1].dst
                /\ EdgeList(tenant)[i].rel = EdgeList(tenant)[1].rel

\* neighbors was asked for two hops with limit 1 about a node that two edges leave.
C36_WitnessHops ==
    /\ last_neighbors.done
    /\ last_neighbors.hops = 2
    /\ last_neighbors.limit = 1
    /\ Len(last_neighbors.result) = 1
    /\ Len(EdgeList(last_neighbors.tenant)) >= 2

----------------------------------------------------------------------------
(* The dashboard under long runs of calls. The bounded clients vary their calls    *)
(* while the history is empty and while it is full; in between they store the same *)
(* node again and again.                                                           *)

MaxRecords == 202

Records == dashboard.total_stores + dashboard.total_lookups + dashboard.total_purges

Varying == dashboard.history = << >> \/ Len(dashboard.history) = MAX_HISTORY

\* api_store or upsert_node records the store of node n1.
RecordStore(created) ==
    /\ Records < MaxRecords
    /\ created \/ Varying
    /\ dashboard' = record_store(dashboard, DefaultTenantId, "note", "n1", created, now)

\* api_lookup records a hit or a miss.
RecordLookup(hit) ==
    /\ Records < MaxRecords
    /\ Varying
    /\ dashboard' = record_lookup(dashboard, DefaultTenantId, "n1", hit, now)

\* api_purge records the purge it acknowledges.
RecordPurge(tenant) ==
    /\ Records < MaxRecords
    /\ Varying
    /\ dashboard' = record_purge(dashboard, tenant, [reason |-> None], now)

\* api_history_clear
ClearHistory ==
    /\ dashboard.history # << >>
    /\ Records = 1 \/ Len(dashboard.history) = MAX_HISTORY
    /\ dashboard' = clear_history(dashboard)

dashboardFrame == <<backend, now, outboxVars, scenarioVars, rls_enforced,
                    scedge_event_bus_enabled, nodeVars, httpVars, lookupVars, purgeVars,
                    pager, last_search, last_api, edges, knowledge_edges, last_neighbors>>

NextDashboard ==
    \/ Varying /\ Tick
    \/ \E created \in BOOLEAN : RecordStore(created) /\ UNCHANGED dashboardFrame
    \/ \E hit \in BOOLEAN : RecordLookup(hit) /\ UNCHANGED dashboardFrame
    \/ \E tenant \in Tenants : RecordPurge(tenant) /\ UNCHANGED dashboardFrame
    \/ ClearHistory /\ UNCHANGED dashboardFrame

SpecDashboard == Init /\ [][NextDashboard]_vars


\* The counters of the dashboard.
Counters(data) ==
    <<data.total_stores, data.total_lookups, data.cache_hits, data.cache_misses,
      data.total_purges>>

NewestFirst(history) ==
    \A i \in DOMAIN history :
        i < Len(history) => history[i].timestamp >= history[i + 1].timestamp

DashboardInv ==
    /\ Len(dashboard.history) <= MAX_HISTORY
    /\ NewestFirst(dashboard.history)
    /\ dashboard.total_lookups = dashboard.cache_hits + dashboard.cache_misses

\* A step of record_store, record_lookup or record_purge: the event is put in front,
\* and a full history loses its last, oldest, event and no other.
RecordStep ==
    Records' = Records + 1 =>
        /\ dashboard'.history[1].timestamp = now
        /\ Tail(dashboard'.history) =
              IF Len(dashboard.history) = MAX_HISTORY
              THEN SubSeq(dashboard.history, 1, MAX_HISTORY - 1)
              ELSE dashboard.history

\* A step of clear_history.
ClearStep ==
    (Records' = Records /\ dashboard' # dashboard) =>
        /\ dashboard'.history = << >>
        /\ Counters(dashboard') = Counters(dashboard)
        /\ dashboard'.last_updated = dashboard.last_updated

\* C37: after any sequence of record_store, record_lookup, record_purge and
\* clear_history calls the history holds at most 200 events, newest first, and
\* total_lookups = cache_hits + cache_misses; a record on a full history evicts
\* exactly the oldest event; clear_history empties the history and leaves every
\* counter as it was.
C37_DashboardHistoryAndCounters ==
    []DashboardInv /\ [][RecordStep /\ ClearStep]_vars

\* A full history has lost its two oldest events, the clock having advanced before
\* the last record, a lookup.
C37_Witness ==
    /\ Len(dashboard.history) = MAX_HISTORY
    /\ Records = MaxRecords
    /\ dashboard.history[1].event_type = "LOOKUP"
    /\ dashboard.history[1].timestamp > dashboard.history[MAX_HISTORY].timestamp

\* A full history was cleared.
C37_WitnessCleared ==
    /\ dashboard.history = << >>
    /\ Records >= MAX_HISTORY
    /\ dashboard.total_purges > 0

====
